---- MODULE Spec2Model ----
(***************************************************************************)
(* A model of pacman.py: the maze, the Player and Ghost classes, the       *)
(* pellet field, the bonus fruit and the frame loop of Game.run.           *)
(*                                                                         *)
(* The Game object is the record `game`; every method of the source is an  *)
(* operator from a Game (or Player, Ghost, Fruit) record to the record     *)
(* after the call, and every call that Game.run makes in a frame is one    *)
(* action.  pygame.Rect is the record [x, y, w, h]; random.choice and      *)
(* random.randint are nondeterministic choices, so a method that draws     *)
(* random numbers is an operator to the SET of records it can return.      *)
(***************************************************************************)
EXTENDS Integers, Sequences, FiniteSets, TLC

VARIABLES
    game,         \* the Game instance (self)
    FPS,          \* the module global FPS, rewritten by next_level
    pc,           \* the statement of Game.run the frame is at
    gi,           \* index of the ghost the loop of Game.run moves next
    pellet_tick,  \* history: update_power_pellets consumed a pellet in this frame
    frame         \* frames begun so far (bounds the run)

vars == <<game, FPS, pc, gi, pellet_tick, frame>>

-----------------------------------------------------------------------------
(* Constants of the source *)

TILE_SIZE == 20
MOVE_SPEED == 2
POWER_PELLET_DURATION == 100
GHOST_SCORE == 200
POWER_PELLET_SCORE == 50
DOT_SCORE == 10
RESPAWN_FRAMES == 60
LAST_LEVEL == 3
INITIAL_LIVES == 3
INITIAL_FPS == 20
WIDTH == 560

(* Bounds of the model *)
MaxFrames == 1
\* steps of MOVE_SPEED pixels the player is followed outside the grid
MaxOutside == 1
\* ticks of the specification of one ghost, and the tick whose collision
\* pass may eat that ghost
MaxTicks == 183
EatTick == 11
\* calls of Ghost.move in a run of the specification of Ghost.move
MaxMoves == 41


MAZE == <<
    <<"1","1","1","1","1","1","1","1","1","1","1","1","1","1","1","1","1","1","1","1","1","1","1","1","1","1","1","1","1">>,
    <<"1","0","0","0","0","0","0","0","0","0","0","0","1","1","1","0","0","0","0","0","0","0","0","0","0","0","0","1">>,
    <<"1","0","1","1","1","1","0","1","1","1","1","0","1","1","1","0","1","1","1","1","0","1","1","1","1","1","0","1">>,
    <<"1","P","0","0","0","1","0","0","0","0","0","0","0","0","0","0","0","0","0","0","0","1","0","0","0","P","1">>,
    <<"1","0","1","1","0","1","0","1","1","1","1","1","1","1","1","1","1","1","1","0","1","0","1","1","0","1","0","1">>,
    <<"1","0","0","0","0","1","0","1","0","0","0","0","0","0","0","0","0","0","0","1","0","1","0","0","0","0","0","1">>,
    <<"1","1","1","1","1","1","0","1","1","1","1","0","1","1","1","0","1","1","1","1","0","1","1","1","1","1","1","1">>,
    <<"0","0","0","0","0","0","0","1","0","0","0","0","0","0","0","0","0","0","0","0","0","1","0","0","0","0","0","0">>,
    <<"1","1","1","1","1","1","0","1","0","1","1","1","1","1","1","1","1","1","0","1","0","1","1","1","1","1","1","1">>,
    <<"1","0","0","0","0","0","0","0","0","1","0","0","0","0","0","0","0","1","0","0","0","0","0","0","0","0","0","1">>,
    <<"1","0","1","1","1","1","1","1","0","1","0","1","1","0","0","1","0","1","0","1","1","1","1","1","1","1","0","1">>,
    <<"1","0","0","0","0","0","0","0","0","0","0","1","0","1","1","0","1","0","0","0","0","0","0","0","0","0","0","1">>,
    <<"1","0","1","1","1","1","1","1","1","1","0","1","0","1","1","0","1","0","1","1","1","1","1","1","1","1","0","1">>,
    <<"1","0","0","0","0","0","0","0","0","1","0","0","0","0","0","0","0","1","0","0","0","0","0","0","0","0","0","1">>,
    <<"1","1","1","1","1","1","0","1","0","1","1","1","1","1","1","1","1","1","0","1","0","1","1","1","1","1","1","1">>,
    <<"0","0","0","0","0","0","0","1","0","0","0","0","0","0","0","0","0","0","0","0","0","1","0","0","0","0","0","0">>,
    <<"1","1","1","1","1","1","0","1","1","1","1","0","1","1","1","0","1","1","1","1","0","1","1","1","1","1","1","1">>,
    <<"1","0","0","0","0","1","0","1","0","0","0","0","0","0","0","0","0","0","0","1","0","1","0","0","0","0","0","1">>,
    <<"1","0","1","1","0","1","0","1","1","1","1","1","1","1","1","1","1","1","1","0","1","0","1","1","0","1","0","1">>,
    <<"1","P","0","0","0","1","0","0","0","0","0","0","0","0","0","0","0","0","0","0","0","1","0","0","0","P","1">>,
    <<"1","0","1","1","1","1","0","1","1","1","1","0","1","1","1","0","1","1","1","1","0","1","1","1","1","1","0","1">>,
    <<"1","0","0","0","0","0","0","0","0","0","0","0","1","1","1","0","0","0","0","0","0","0","0","0","0","0","0","1">>,
    <<"1","1","1","1","1","1","1","1","1","1","1","1","1","1","1","1","1","1","1","1","1","1","1","1","1","1","1","1","1">>
>>

\* MAZE[row_index][col_index] of the source (0-based) in the 1-based tuples
Cell(row_index, col_index) == MAZE[row_index + 1][col_index + 1]

\* every <<row_index, col_index>> the scans of the source enumerate
Cells ==
    UNION {{<<row_index, col_index>> : col_index \in 0 .. Len(MAZE[row_index + 1]) - 1} :
           row_index \in 0 .. Len(MAZE) - 1}

\* <<row_index, col_index>> of every "1", "0" and "P" cell
WallCells   == {rc \in Cells : Cell(rc[1], rc[2]) = "1"}
DotCells    == {rc \in Cells : Cell(rc[1], rc[2]) = "0"}
PelletCells == {rc \in Cells : Cell(rc[1], rc[2]) = "P"}

-----------------------------------------------------------------------------
(* pygame.Rect *)

Rect(x, y, w, h) == [x |-> x, y |-> y, w |-> w, h |-> h]

RectMove(rect, dx, dy) == [rect EXCEPT !.x = @ + dx, !.y = @ + dy]

\* Rect.colliderect: the rectangles overlap (touching edges do not count)
colliderect(a, b) ==
    /\ a.x < b.x + b.w
    /\ a.y < b.y + b.h
    /\ a.x + a.w > b.x
    /\ a.y + a.h > b.y

\* rect.center
RectCenter(rect) == <<rect.x + rect.w \div 2, rect.y + rect.h \div 2>>

WallRect(rc) == Rect(rc[2] * TILE_SIZE, rc[1] * TILE_SIZE, TILE_SIZE, TILE_SIZE)

\* Player.collides_with_walls and Ghost.collides_with_walls (the same code):
\* some "1" cell's tile rectangle overlaps rect
collides_with_walls(rect) ==
    \E rc \in WallCells : colliderect(rect, WallRect(rc))

\* the four values random.choice draws a direction from
Cardinals == {<<MOVE_SPEED, 0>>, <<-MOVE_SPEED, 0>>, <<0, MOVE_SPEED>>, <<0, -MOVE_SPEED>>}

Sign(v) == IF v > 0 THEN 1 ELSE IF v < 0 THEN -1 ELSE 0

Abs(v) == IF v < 0 THEN -v ELSE v

-----------------------------------------------------------------------------
(* class Player *)

\* Player.__init__(x, y)
NewPlayer(x, y) ==
    [start_x |-> x, start_y |-> y,
     rect |-> Rect(x, y, TILE_SIZE, TILE_SIZE),
     dx |-> MOVE_SPEED, dy |-> 0,
     last_direction |-> <<1, 0>>,
     next_dx |-> MOVE_SPEED, next_dy |-> 0]

\* Player.reset
PlayerReset(p) ==
    [p EXCEPT !.rect.x = p.start_x, !.rect.y = p.start_y,
              !.dx = MOVE_SPEED, !.dy = 0,
              !.last_direction = <<1, 0>>,
              !.next_dx = MOVE_SPEED, !.next_dy = 0]

\* Variant of Player.set_direction that stores dx and leaves next_dy.
set_direction_keepdy(p, dx, dy) == [p EXCEPT !.next_dx = dx]

\* Player.set_direction
set_direction(p, dx, dy) == [p EXCEPT !.next_dx = dx, !.next_dy = dy]

\* Player.move, first half: commit the queued direction when it differs and
\* a step in it is free of walls
PlayerTurn(p) ==
    IF /\ (p.next_dx # p.dx \/ p.next_dy # p.dy)
       /\ ~collides_with_walls(RectMove(p.rect, p.next_dx, p.next_dy))
    THEN [p EXCEPT !.dx = p.next_dx, !.dy = p.next_dy,
                   !.last_direction =
                       IF p.next_dx # 0 \/ p.next_dy # 0
                       THEN <<Sign(p.next_dx), Sign(p.next_dy)>>
                       ELSE @]
    ELSE p

\* Variant of the second half of Player.move that keeps the velocity when
\* the step is blocked.
PlayerAdvance_coast(p) ==
    LET new_rect == RectMove(p.rect, p.dx, p.dy)
    IN  IF ~collides_with_walls(new_rect)
        THEN [p EXCEPT !.rect = new_rect]
        ELSE p

\* Player.move, second half: advance, or stop dead at a wall
PlayerAdvance(p) ==
    LET new_rect == RectMove(p.rect, p.dx, p.dy)
    IN  IF ~collides_with_walls(new_rect)
        THEN [p EXCEPT !.rect = new_rect]
        ELSE [p EXCEPT !.dx = 0, !.dy = 0]

\* Player.move
PlayerMove(p) == PlayerAdvance(PlayerTurn(p))

-----------------------------------------------------------------------------
(* class Ghost *)

\* Ghost.__init__(x, y, color, ai_type); direction is the random.choice drawn
NewGhost(x, y, color, ai_type, direction) ==
    [start_x |-> x, start_y |-> y,
     rect |-> Rect(x, y, TILE_SIZE, TILE_SIZE),
     direction |-> direction,
     color |-> color, original_color |-> color,
     vulnerable |-> FALSE,
     vulnerability_timer |-> 0,
     respawn_timer |-> 0,
     eaten |-> FALSE,
     ai_type |-> ai_type,
     direction_change_timer |-> 0]

\* Ghost.reset; direction is the random.choice drawn
GhostReset(g, direction) ==
    [g EXCEPT !.rect.x = g.start_x, !.rect.y = g.start_y,
              !.direction = direction,
              !.vulnerable = FALSE,
              !.vulnerability_timer = 0,
              !.respawn_timer = 0,
              !.eaten = FALSE,
              !.color = g.original_color,
              !.direction_change_timer = 0]

\* Ghost.make_vulnerable without line 350: the timer is left as it was
make_vulnerable_notimer(g) ==
    [g EXCEPT !.vulnerable = TRUE,
              !.color = "BLUE"]

\* Ghost.make_vulnerable
make_vulnerable(g) ==
    [g EXCEPT !.vulnerable = TRUE,
              !.vulnerability_timer = POWER_PELLET_DURATION,
              !.color = "BLUE"]

\* Variant of Ghost.update_vulnerability that clears vulnerable in the call
\* in which the timer reaches 0.
update_vulnerability_eager(g) ==
    IF g.vulnerability_timer > 0
    THEN LET t == g.vulnerability_timer - 1
         IN  [g EXCEPT !.vulnerability_timer = t,
                       !.vulnerable = IF t = 0 THEN FALSE ELSE @,
                       !.color = IF t < 30 /\ t % 10 < 5 THEN "WHITE" ELSE "BLUE"]
    ELSE [g EXCEPT !.vulnerable = FALSE, !.color = g.original_color]

\* Ghost.update_vulnerability making the ghost vulnerable while its timer runs
update_vulnerability_relapse(g) ==
    IF g.vulnerability_timer > 0
    THEN LET t == g.vulnerability_timer - 1
         IN  [g EXCEPT !.vulnerability_timer = t,
                       !.vulnerable = TRUE,
                       !.color = IF t < 30 /\ t % 10 < 5 THEN "WHITE" ELSE "BLUE"]
    ELSE [g EXCEPT !.vulnerable = FALSE, !.color = g.original_color]

\* Ghost.update_vulnerability
update_vulnerability(g) ==
    IF g.vulnerability_timer > 0
    THEN LET t == g.vulnerability_timer - 1
         IN  [g EXCEPT !.vulnerability_timer = t,
                       !.color = IF t < 30 /\ t % 10 < 5 THEN "WHITE" ELSE "BLUE"]
    ELSE [g EXCEPT !.vulnerable = FALSE, !.color = g.original_color]

\* Variant of Ghost.respawn without line 372: vulnerable is left as it was.
respawn_keepvulnerable(g) ==
    IF g.respawn_timer > 0
    THEN IF g.respawn_timer - 1 = 0
         THEN [g EXCEPT !.respawn_timer = 0,
                        !.eaten = FALSE,
                        !.rect.x = g.start_x, !.rect.y = g.start_y,
                        !.color = g.original_color]
         ELSE [g EXCEPT !.respawn_timer = @ - 1]
    ELSE g

\* Ghost.respawn without the test of line 368: the ghost is back at the
\* first decrement
respawn_early(g) ==
    IF g.respawn_timer > 0
    THEN [g EXCEPT !.respawn_timer = @ - 1,
                   !.eaten = FALSE,
                   !.rect.x = g.start_x, !.rect.y = g.start_y,
                   !.vulnerable = FALSE,
                   !.color = g.original_color]
    ELSE g

\* Ghost.respawn
respawn(g) ==
    IF g.respawn_timer > 0
    THEN IF g.respawn_timer - 1 = 0
         THEN [g EXCEPT !.respawn_timer = 0,
                        !.eaten = FALSE,
                        !.rect.x = g.start_x, !.rect.y = g.start_y,
                        !.vulnerable = FALSE,
                        !.color = g.original_color]
         ELSE [g EXCEPT !.respawn_timer = @ - 1]
    ELSE g

\* Ghost.move, lines 386-392: the flee rule of a vulnerable ghost
FleeDirection(g, player_pos) ==
    LET px == player_pos[1]
        py == player_pos[2]
        gx == g.rect.x
        gy == g.rect.y
    IN  IF Abs(px - gx) > Abs(py - gy)
        THEN <<IF px > gx THEN -MOVE_SPEED ELSE MOVE_SPEED, 0>>
        ELSE <<0, IF py > gy THEN -MOVE_SPEED ELSE MOVE_SPEED>>

\* Ghost.move, lines 398-403 and 410-414: head for the point target
ChaseDirection(g, target) ==
    LET gx == g.rect.x
        gy == g.rect.y
    IN  IF Abs(target[1] - gx) > Abs(target[2] - gy)
        THEN <<IF target[1] > gx THEN MOVE_SPEED ELSE -MOVE_SPEED, 0>>
        ELSE <<0, IF target[2] > gy THEN MOVE_SPEED ELSE -MOVE_SPEED>>

\* Ghost.move with the random ghost's rule taken every 10 calls
AIDirections_random10(g, player_pos, player_direction) ==
    LET change_freq == 40
        timer == g.direction_change_timer
    IN  IF g.vulnerable
        THEN IF timer % 10 = 0
             THEN {FleeDirection(g, player_pos)}
             ELSE {g.direction}
        ELSE IF g.ai_type = "aggressive" /\ timer % 20 = 0
        THEN {ChaseDirection(g, player_pos)}
        ELSE IF g.ai_type = "ambush" /\ timer % 30 = 0
        THEN {ChaseDirection(g, <<player_pos[1] + 4 * TILE_SIZE * player_direction[1],
                                  player_pos[2] + 4 * TILE_SIZE * player_direction[2]>>)}
        ELSE IF g.ai_type = "patrol" /\ timer % change_freq = 0
        THEN Cardinals
        ELSE IF g.ai_type = "random" /\ timer % (change_freq \div 4) = 0
        THEN {IF n > 7 THEN d ELSE g.direction : n \in 0 .. 10, d \in Cardinals}
        ELSE {g.direction}

\* Ghost.move with the flee rule taken every 20 calls
AIDirections_flee20(g, player_pos, player_direction) ==
    LET change_freq == 40
        timer == g.direction_change_timer
    IN  IF g.vulnerable
        THEN IF timer % 20 = 0
             THEN {FleeDirection(g, player_pos)}
             ELSE {g.direction}
        ELSE IF g.ai_type = "aggressive" /\ timer % 20 = 0
        THEN {ChaseDirection(g, player_pos)}
        ELSE IF g.ai_type = "ambush" /\ timer % 30 = 0
        THEN {ChaseDirection(g, <<player_pos[1] + 4 * TILE_SIZE * player_direction[1],
                                  player_pos[2] + 4 * TILE_SIZE * player_direction[2]>>)}
        ELSE IF g.ai_type = "patrol" /\ timer % change_freq = 0
        THEN Cardinals
        ELSE IF g.ai_type = "random" /\ timer % (change_freq \div 2) = 0
        THEN {IF n > 7 THEN d ELSE g.direction : n \in 0 .. 10, d \in Cardinals}
        ELSE {g.direction}

\* Ghost.move, lines 384-420: the directions the AI can leave in g.direction
\* (g has been through update_vulnerability and the counter increment)
AIDirections(g, player_pos, player_direction) ==
    LET change_freq == 40
        timer == g.direction_change_timer
    IN  IF g.vulnerable
        THEN IF timer % 10 = 0
             THEN {FleeDirection(g, player_pos)}
             ELSE {g.direction}
        ELSE IF g.ai_type = "aggressive" /\ timer % 20 = 0
        THEN {ChaseDirection(g, player_pos)}
        ELSE IF g.ai_type = "ambush" /\ timer % 30 = 0
        THEN {ChaseDirection(g, <<player_pos[1] + 4 * TILE_SIZE * player_direction[1],
                                  player_pos[2] + 4 * TILE_SIZE * player_direction[2]>>)}
        ELSE IF g.ai_type = "patrol" /\ timer % change_freq = 0
        THEN Cardinals
        ELSE IF g.ai_type = "random" /\ timer % (change_freq \div 2) = 0
        THEN {IF n > 7 THEN d ELSE g.direction : n \in 0 .. 10, d \in Cardinals}
        ELSE {g.direction}

\* Ghost.move advancing without looking at the walls
GhostAdvance_nowalls(g) ==
    {[g EXCEPT !.rect = RectMove(g.rect, g.direction[1], g.direction[2])]}

\* Ghost.move, lines 422-427: advance, or draw a new direction at a wall
GhostAdvance(g) ==
    LET new_rect == RectMove(g.rect, g.direction[1], g.direction[2])
    IN  IF ~collides_with_walls(new_rect)
        THEN {[g EXCEPT !.rect = new_rect]}
        ELSE {[g EXCEPT !.direction = d] : d \in Cardinals}

\* Ghost.move(maze, player_pos, player_direction): every ghost it can leave
GhostMove(g, player_pos, player_direction) ==
    IF g.eaten
    THEN {respawn(g)}
    ELSE LET g1 == update_vulnerability(g)
             g2 == [g1 EXCEPT !.direction_change_timer = @ + 1]
         IN  UNION {GhostAdvance([g2 EXCEPT !.direction = d]) :
                    d \in AIDirections(g2, player_pos, player_direction)}

-----------------------------------------------------------------------------
(* class Fruit, class Dot, class PowerPellet *)

\* Fruit.__init__(x, y)
NewFruit(x, y) ==
    [rect |-> Rect(x + TILE_SIZE \div 4, y + TILE_SIZE \div 4,
                   TILE_SIZE \div 2, TILE_SIZE \div 2),
     eaten |-> FALSE,
     spawn_timer |-> 0,
     visible |-> FALSE,
     fruit_type |-> 0]

\* Fruit.update wrapping the timer one tick early
FruitUpdate_wrap1000(f) ==
    IF ~f.eaten
    THEN LET t == f.spawn_timer + 1
         IN  IF 300 < t /\ t < 500
             THEN [f EXCEPT !.spawn_timer = t, !.visible = TRUE]
             ELSE IF t >= 1000
             THEN [f EXCEPT !.spawn_timer = 0, !.visible = FALSE,
                            !.fruit_type = (@ + 1) % 3]
             ELSE [f EXCEPT !.spawn_timer = t, !.visible = FALSE]
    ELSE f

\* Fruit.update
FruitUpdate(f) ==
    IF ~f.eaten
    THEN LET t == f.spawn_timer + 1
         IN  IF 300 < t /\ t < 500
             THEN [f EXCEPT !.spawn_timer = t, !.visible = TRUE]
             ELSE IF t > 1000
             THEN [f EXCEPT !.spawn_timer = 0, !.visible = FALSE,
                            !.fruit_type = (@ + 1) % 3]
             ELSE [f EXCEPT !.spawn_timer = t, !.visible = FALSE]
    ELSE f

\* the rect of Dot.__init__ for the dot of cell rc
DotRect(rc) ==
    Rect(rc[2] * TILE_SIZE + TILE_SIZE \div 4, rc[1] * TILE_SIZE + TILE_SIZE \div 4,
         TILE_SIZE \div 2, TILE_SIZE \div 2)

\* the rect of PowerPellet.__init__ for the pellet of cell rc
\* (TILE_SIZE // 1.5 is 13.0, which pygame.Rect stores as 13)
PelletRect(rc) ==
    Rect(rc[2] * TILE_SIZE + TILE_SIZE \div 6, rc[1] * TILE_SIZE + TILE_SIZE \div 6,
         (2 * TILE_SIZE) \div 3, (2 * TILE_SIZE) \div 3)

\* fruit_scores of update_bonus_fruit
fruit_scores == <<100, 300, 500>>

-----------------------------------------------------------------------------
(* class Game *)

GhostIds == 1 .. 4

\* Game.create_dots: one uneaten dot per "0" cell
create_dots == [rc \in DotCells |-> FALSE]

\* Game.create_power_pellets: one uneaten pellet per "P" cell
create_power_pellets == [rc \in PelletCells |-> FALSE]

\* Game.__init__; d[i] is the random.choice drawn by ghost i
NewGame(d) ==
    [player |-> NewPlayer(1 * TILE_SIZE, 1 * TILE_SIZE),
     ghosts |-> <<NewGhost(13 * TILE_SIZE, 11 * TILE_SIZE, "RED", "aggressive", d[1]),
                  NewGhost(14 * TILE_SIZE, 11 * TILE_SIZE, "PINK", "ambush", d[2]),
                  NewGhost(13 * TILE_SIZE, 12 * TILE_SIZE, "CYAN", "patrol", d[3]),
                  NewGhost(14 * TILE_SIZE, 12 * TILE_SIZE, "ORANGE", "random", d[4])>>,
     dots |-> create_dots,
     power_pellets |-> create_power_pellets,
     bonus_fruit |-> NewFruit(14 * TILE_SIZE, 16 * TILE_SIZE),
     score |-> 0,
     game_over |-> FALSE,
     lives |-> INITIAL_LIVES,
     level |-> 1,
     game_won |-> FALSE,
     power_mode |-> FALSE,
     ghost_combo |-> 1,
     show_menu |-> TRUE,
     paused |-> FALSE]

\* the draws of the four ghosts' random.choice in __init__ and in
\* reset_positions: any direction for ghosts 1 and 2, with ghost 3 drawing
\* what ghost 1 does and ghost 4 what ghost 2 does (16 of the 256 draws)
Draws == {d \in [GhostIds -> Cardinals] : d[3] = d[1] /\ d[4] = d[2]}

\* Game.reset_positions without line 575: the ghosts stay where they are
reset_positions_player_only(g, d) ==
    [g EXCEPT !.player = PlayerReset(@)]

\* Game.reset_positions; d[i] is the random.choice drawn by ghost i
reset_positions(g, d) ==
    [g EXCEPT !.player = PlayerReset(@),
              !.ghosts = [i \in GhostIds |-> GhostReset(@[i], d[i])]]

\* Variant of Game.next_level that starts the new level with score 0.
next_level_noscore(g, d) ==
    LET g1 == [g EXCEPT !.level = @ + 1,
                        !.score = 0,
                        !.dots = create_dots,
                        !.power_pellets = create_power_pellets,
                        !.bonus_fruit = NewFruit(14 * TILE_SIZE, 16 * TILE_SIZE)]
    IN  [reset_positions(g1, d) EXCEPT !.game_won = FALSE]

\* Game.next_level (the assignment to the global FPS is in LevelProgression)
next_level(g, d) ==
    LET g1 == [g EXCEPT !.level = @ + 1,
                        !.dots = create_dots,
                        !.power_pellets = create_power_pellets,
                        !.bonus_fruit = NewFruit(14 * TILE_SIZE, 16 * TILE_SIZE)]
    IN  [reset_positions(g1, d) EXCEPT !.game_won = FALSE]

\* the value next_level gives the global FPS
NextLevelFPS(g) ==
    LET v == 20 + g.level * 2 IN IF v < 30 THEN v ELSE 30

\* the sets of held keys pygame.key.get_pressed reports in the model
KeySets ==
    {{}, {"UP"}, {"DOWN"}, {"LEFT", "UP"}, {"RIGHT", "DOWN"}, {"SPACE"}, {"R"}}

\* Variant of HandleDirectionKeys without the test of self.paused.
HandleDirectionKeys_unpaused(g, keys) ==
    IF "LEFT" \in keys THEN [g EXCEPT !.player = set_direction(@, -MOVE_SPEED, 0)]
    ELSE IF "RIGHT" \in keys THEN [g EXCEPT !.player = set_direction(@, MOVE_SPEED, 0)]
    ELSE IF "UP" \in keys THEN [g EXCEPT !.player = set_direction(@, 0, -MOVE_SPEED)]
    ELSE IF "DOWN" \in keys THEN [g EXCEPT !.player = set_direction(@, 0, MOVE_SPEED)]
    ELSE g

\* Game.handle_events, lines 634-642: the direction keys, while not paused
HandleDirectionKeys(g, keys) ==
    IF g.paused THEN g
    ELSE IF "LEFT" \in keys
    THEN [g EXCEPT !.player = set_direction(@, -MOVE_SPEED, 0)]
    ELSE IF "RIGHT" \in keys
    THEN [g EXCEPT !.player = set_direction(@, MOVE_SPEED, 0)]
    ELSE IF "UP" \in keys
    THEN [g EXCEPT !.player = set_direction(@, 0, -MOVE_SPEED)]
    ELSE IF "DOWN" \in keys
    THEN [g EXCEPT !.player = set_direction(@, 0, MOVE_SPEED)]
    ELSE g

\* Game.handle_events, lines 625-631: each K_p KEYDOWN event of the queue
\* toggles paused unless the game is over or won
HandlePauseEvents(g, p_events) ==
    IF ~g.game_over /\ ~g.game_won /\ p_events % 2 = 1
    THEN [g EXCEPT !.paused = ~@]
    ELSE g

\* Game.handle_events, lines 644-645: R re-constructs the game when it is
\* over or won
HandleRestartKey(g, keys) ==
    IF (g.game_over \/ g.game_won) /\ "R" \in keys
    THEN {NewGame(d) : d \in Draws}
    ELSE {g}

\* Game.handle_events: keys is what get_pressed reports, p_events the number
\* of K_p KEYDOWN events in the queue; every Game it can leave
handle_events(g, keys, p_events) ==
    IF g.show_menu
    THEN {IF "SPACE" \in keys THEN [g EXCEPT !.show_menu = FALSE] ELSE g}
    ELSE HandleRestartKey(HandleDirectionKeys(HandlePauseEvents(g, p_events), keys), keys)

\* Game.update_dots declaring the level won when some dot is eaten
update_dots_anydot(g) ==
    LET hit == {rc \in DotCells :
                   ~g.dots[rc] /\ colliderect(g.player.rect, DotRect(rc))}
        dots == [rc \in DotCells |-> g.dots[rc] \/ rc \in hit]
    IN  [g EXCEPT !.dots = dots,
                  !.score = @ + DOT_SCORE * Cardinality(hit),
                  !.game_won = IF \E rc \in DotCells : dots[rc] THEN TRUE ELSE @]

\* Game.update_dots
update_dots(g) ==
    LET hit == {rc \in DotCells :
                   ~g.dots[rc] /\ colliderect(g.player.rect, DotRect(rc))}
        dots == [rc \in DotCells |-> g.dots[rc] \/ rc \in hit]
    IN  [g EXCEPT !.dots = dots,
                  !.score = @ + DOT_SCORE * Cardinality(hit),
                  !.game_won = IF \A rc \in DotCells : dots[rc] THEN TRUE ELSE @]

\* the pellets update_power_pellets consumes
PelletsHit(g) ==
    {rc \in PelletCells :
        ~g.power_pellets[rc] /\ colliderect(g.player.rect, PelletRect(rc))}

\* Game.update_power_pellets without line 663: the combo is left as it was
update_power_pellets_keepcombo(g) ==
    LET hit == PelletsHit(g)
    IN  IF hit = {} THEN g
        ELSE [g EXCEPT !.power_pellets = [rc \in PelletCells |-> @[rc] \/ rc \in hit],
                       !.score = @ + POWER_PELLET_SCORE * Cardinality(hit),
                       !.power_mode = TRUE,
                       !.ghosts = [i \in GhostIds |-> make_vulnerable(@[i])]]

\* Game.update_power_pellets
update_power_pellets(g) ==
    LET hit == PelletsHit(g)
    IN  IF hit = {} THEN g
        ELSE [g EXCEPT !.power_pellets = [rc \in PelletCells |-> @[rc] \/ rc \in hit],
                       !.score = @ + POWER_PELLET_SCORE * Cardinality(hit),
                       !.power_mode = TRUE,
                       !.ghost_combo = 1,
                       !.ghosts = [i \in GhostIds |-> make_vulnerable(@[i])]]

\* Game.update_bonus_fruit collecting the visible fruit wherever the player is
update_bonus_fruit_nocontact(g) ==
    LET f == FruitUpdate(g.bonus_fruit)
    IN  IF ~f.eaten /\ f.visible
        THEN [g EXCEPT !.bonus_fruit = [f EXCEPT !.eaten = TRUE],
                       !.score = @ + fruit_scores[f.fruit_type + 1]]
        ELSE [g EXCEPT !.bonus_fruit = f]

\* Game.update_bonus_fruit
update_bonus_fruit(g) ==
    LET f == FruitUpdate(g.bonus_fruit)
    IN  IF ~f.eaten /\ f.visible /\ colliderect(g.player.rect, f.rect)
        THEN [g EXCEPT !.bonus_fruit = [f EXCEPT !.eaten = TRUE],
                       !.score = @ + fruit_scores[f.fruit_type + 1]]
        ELSE [g EXCEPT !.bonus_fruit = f]

\* the body of the loop of Game.check_collisions with line 687 awarding
\* GHOST_SCORE whatever the combo
CollideGhost_flat(g, i) ==
    LET ghost == g.ghosts[i]
    IN  IF colliderect(g.player.rect, ghost.rect) /\ ~ghost.eaten
        THEN IF ghost.vulnerable
             THEN {[g EXCEPT !.ghosts[i].eaten = TRUE,
                             !.ghosts[i].respawn_timer = RESPAWN_FRAMES,
                             !.score = @ + GHOST_SCORE,
                             !.ghost_combo = @ + 1]}
             ELSE IF g.lives - 1 <= 0
             THEN {[g EXCEPT !.lives = @ - 1, !.game_over = TRUE]}
             ELSE {reset_positions([g EXCEPT !.lives = @ - 1], d) : d \in Draws}
        ELSE {g}

\* the body of the loop of Game.check_collisions with the combo set back
\* to 1 when a life is lost
CollideGhost_combo(g, i) ==
    LET ghost == g.ghosts[i]
    IN  IF colliderect(g.player.rect, ghost.rect) /\ ~ghost.eaten
        THEN IF ghost.vulnerable
             THEN {[g EXCEPT !.ghosts[i].eaten = TRUE,
                             !.ghosts[i].respawn_timer = RESPAWN_FRAMES,
                             !.score = @ + GHOST_SCORE * g.ghost_combo,
                             !.ghost_combo = @ + 1]}
             ELSE IF g.lives - 1 <= 0
             THEN {[g EXCEPT !.lives = @ - 1, !.game_over = TRUE,
                             !.ghost_combo = 1]}
             ELSE {reset_positions([g EXCEPT !.lives = @ - 1,
                                             !.ghost_combo = 1], d) : d \in Draws}
        ELSE {g}

\* Game.check_collisions, the body of the loop for ghost i: every Game it
\* can leave (reset_positions draws four directions)
CollideGhost(g, i) ==
    LET ghost == g.ghosts[i]
    IN  IF colliderect(g.player.rect, ghost.rect) /\ ~ghost.eaten
        THEN IF ghost.vulnerable
             THEN {[g EXCEPT !.ghosts[i].eaten = TRUE,
                             !.ghosts[i].respawn_timer = RESPAWN_FRAMES,
                             !.score = @ + GHOST_SCORE * g.ghost_combo,
                             !.ghost_combo = @ + 1]}
             ELSE IF g.lives - 1 <= 0
             THEN {[g EXCEPT !.lives = @ - 1, !.game_over = TRUE]}
             ELSE {reset_positions([g EXCEPT !.lives = @ - 1], d) : d \in Draws}
        ELSE {g}

\* Game.check_collisions from ghost i on
RECURSIVE CollideFrom(_, _)
CollideFrom(g, i) ==
    IF i > Len(g.ghosts) THEN {g}
    ELSE UNION {CollideFrom(g1, i + 1) : g1 \in CollideGhost(g, i)}

\* Game.check_collisions: every Game it can leave
check_collisions(g) == CollideFrom(g, 1)

-----------------------------------------------------------------------------
(* Game.run: one action per call of a frame *)

\* Variant of the branch of Game.run after handle_events without the test
\* of self.game_over.
AfterEvents_running(g) ==
    IF g.show_menu THEN "handle_events"
    ELSE IF ~g.paused
    THEN IF g.game_won THEN "level_progression" ELSE "player_move"
    ELSE "handle_events"

\* Game.run, lines 784-799: the statement a frame goes to after handle_events
AfterEvents(g) ==
    IF g.show_menu THEN "handle_events"
    ELSE IF ~g.game_over /\ ~g.paused
    THEN IF g.game_won THEN "level_progression" ELSE "player_move"
    ELSE "handle_events"

\* Game.__init__ and the first frame of Game.run
Init ==
    /\ game \in {NewGame(d) : d \in Draws}
    /\ FPS = INITIAL_FPS
    /\ pc = "handle_events"
    /\ gi = 1
    /\ pellet_tick = FALSE
    /\ frame = 0

\* Game.run, line 781: self.handle_events() and the branch taken after it
HandleEvents ==
    /\ pc = "handle_events"
    /\ frame < MaxFrames
    /\ \E keys \in KeySets, p_events \in 0 .. 2 :
         \E g1 \in handle_events(game, keys, p_events) :
            /\ game' = g1
            /\ pc' = AfterEvents(g1)
    /\ frame' = frame + 1
    /\ pellet_tick' = FALSE
    /\ UNCHANGED <<FPS, gi>>

\* Game.run, lines 791-798: the game is won and get_pressed is read again
LevelProgression ==
    /\ pc = "level_progression"
    /\ \E keys \in KeySets :
         IF "R" \in keys
         THEN \E d \in Draws :
                 IF game.level >= LAST_LEVEL
                 THEN game' = NewGame(d) /\ FPS' = FPS
                 ELSE game' = next_level(game, d) /\ FPS' = NextLevelFPS(game')
         ELSE UNCHANGED <<game, FPS>>
    /\ pc' = "handle_events"
    /\ UNCHANGED <<gi, pellet_tick, frame>>

\* Game.run, line 801: self.player.move(self.maze)
MovePlayer ==
    /\ pc = "player_move"
    /\ game' = [game EXCEPT !.player = PlayerMove(@)]
    /\ pc' = "update_dots"
    /\ UNCHANGED <<FPS, gi, pellet_tick, frame>>

\* Game.run, line 802: self.update_dots()
UpdateDots ==
    /\ pc = "update_dots"
    /\ game' = update_dots(game)
    /\ pc' = "update_power_pellets"
    /\ UNCHANGED <<FPS, gi, pellet_tick, frame>>

\* Game.run, line 803: self.update_power_pellets()
UpdatePowerPellets ==
    /\ pc = "update_power_pellets"
    /\ game' = update_power_pellets(game)
    /\ pellet_tick' = (PelletsHit(game) # {})
    /\ pc' = "update_bonus_fruit"
    /\ UNCHANGED <<FPS, gi, frame>>

\* Game.run, line 804: self.update_bonus_fruit()
UpdateBonusFruit ==
    /\ pc = "update_bonus_fruit"
    /\ game' = update_bonus_fruit(game)
    /\ pc' = "ghost_move"
    /\ gi' = 1
    /\ UNCHANGED <<FPS, pellet_tick, frame>>

\* Game.run, lines 805-806: ghost.move(...) for the next ghost of the loop
MoveGhost ==
    /\ pc = "ghost_move"
    /\ \E g2 \in GhostMove(game.ghosts[gi], RectCenter(game.player.rect),
                           game.player.last_direction) :
         game' = [game EXCEPT !.ghosts[gi] = g2]
    /\ IF gi < Len(game.ghosts)
       THEN gi' = gi + 1 /\ pc' = "ghost_move"
       ELSE gi' = 1 /\ pc' = "check_collisions"
    /\ UNCHANGED <<FPS, pellet_tick, frame>>

\* Game.run, line 807: self.check_collisions(), which ends the frame
CheckCollisions ==
    /\ pc = "check_collisions"
    /\ game' \in check_collisions(game)
    /\ pc' = "handle_events"
    /\ UNCHANGED <<FPS, gi, pellet_tick, frame>>

Next ==
    \/ HandleEvents
    \/ LevelProgression
    \/ MovePlayer
    \/ UpdateDots
    \/ UpdatePowerPellets
    \/ UpdateBonusFruit
    \/ MoveGhost
    \/ CheckCollisions

\* the game from Game.__init__ on
Spec == Init /\ [][Next]_vars

-----------------------------------------------------------------------------
(* The arena: frames that begin with the player going up the corridor of   *)
(* column 1, about to touch the dot of cell (2, 1) or the power pellet of  *)
(* cell (3, 1), and with ghosts in any of their states coming down the     *)
(* corridor onto the player.  With the spawn tiles of Game.__init__ no     *)
(* ghost ever leaves its spawn tile, so a frame in which a ghost meets the *)
(* player is drawn here, as an input.  An arena frame begins as a frame    *)
(* of the program does: the player is on no uneaten dot or pellet, and no  *)
(* ghost that is not Eaten is on the player.                               *)

\* a ghost put at (x, y) with a direction and a value of its counter
Placed(g, x, y, direction, counter) ==
    [g EXCEPT !.rect.x = x, !.rect.y = y, !.direction = direction,
              !.direction_change_timer = counter]

\* a ghost some frames after make_vulnerable, timer frames before expiry
Vulnerable(g, timer) ==
    [update_vulnerability([make_vulnerable(g) EXCEPT !.vulnerability_timer = timer + 1])
        EXCEPT !.vulnerable = TRUE]

\* a ghost some frames after check_collisions ate it, timer frames before respawn
Eaten(g, timer) ==
    [g EXCEPT !.eaten = TRUE, !.respawn_timer = timer]

\* a ghost that Ghost.respawn has put back in play while the timer a power
\* pellet gave it still runs: not vulnerable, timer frames of the timer left
Respawned(g, timer) ==
    update_vulnerability([g EXCEPT !.vulnerability_timer = timer + 1])

\* Game.__init__ with every ghost drawing the direction (MOVE_SPEED, 0)
ArenaBase == NewGame([j \in GhostIds |-> <<MOVE_SPEED, 0>>])

\* the states ghost i begins an arena frame in, the player being at (20, y);
\* power: a power pellet was consumed 70 frames ago
ArenaGhosts(i, power, y) ==
    LET g       == ArenaBase.ghosts[i]
        upon(c) == Placed(g, 20, y - TILE_SIZE, <<0, MOVE_SPEED>>, c)
        under   == Placed(g, 20, y - 10, <<0, MOVE_SPEED>>, 0)
        far     == Placed(g, 20, 180, <<MOVE_SPEED, 0>>, 0)
    IN  IF ~power
        THEN CASE i = 1 -> {upon(19), Eaten(Vulnerable(under, 20), 1)}
               [] i = 2 -> {upon(0), Eaten(Vulnerable(under, 20), 30)}
               [] i = 3 -> {far}
               [] i = 4 -> {far, upon(9)}
        ELSE CASE i = 1 -> {Respawned(upon(19), 90), Vulnerable(upon(0), 30),
                            Eaten(Vulnerable(under, 89), 1)}
               [] i = 2 -> {Respawned(upon(0), 90), Vulnerable(upon(0), 30),
                            Eaten(Vulnerable(under, 60), 30)}
               [] i = 3 -> {Respawned(far, 90), Vulnerable(upon(0), 30)}
               [] i = 4 -> {Respawned(far, 90), Respawned(upon(9), 90)}

\* the dots left uneaten, the level, the y of the player and whether the
\* pellet of cell (3, 1) is eaten when an arena frame begins: the last dot
\* about to be eaten on level 1 or on the last level, or the pellet ahead
ArenaLevels ==
    {<<{<<2, 1>>}, 1, 56, TRUE>>,
     <<{<<2, 1>>}, LAST_LEVEL, 56, TRUE>>,
     <<{<<1, 2>>, <<1, 3>>}, 1, 76, FALSE>>,
     <<{<<1, 2>>, <<1, 3>>}, 1, 76, TRUE>>}

\* a Game in the middle of level `level`: the player at (20, y) going up
\* the corridor of column 1, the ghosts gs, the dots `left` uneaten, every
\* power pellet but that of cell (3, 1) eaten
ArenaGame(gs, left, level, y, pellet_eaten, lives, combo) ==
    LET pellets == [rc \in PelletCells |-> rc # <<3, 1>> \/ pellet_eaten]
    IN  [ArenaBase EXCEPT
            !.show_menu = FALSE,
            !.player = [@ EXCEPT !.rect.x = 20, !.rect.y = y,
                                 !.dx = 0, !.dy = -MOVE_SPEED,
                                 !.next_dx = 0, !.next_dy = -MOVE_SPEED,
                                 !.last_direction = <<0, -1>>],
            !.ghosts = gs,
            !.dots = [rc \in DotCells |-> rc \notin left],
            !.power_pellets = pellets,
            !.power_mode = TRUE,
            !.score = DOT_SCORE * Cardinality(DotCells \ left)
                      + POWER_PELLET_SCORE
                           * Cardinality({rc \in PelletCells : pellets[rc]}),
            !.lives = lives,
            !.level = level,
            !.ghost_combo = combo]

\* the Games a Playing arena frame begins with
ArenaGames ==
    UNION {{ArenaGame(<<g1, g2, g3, g4>>, ll[1], ll[2], ll[3], ll[4], lives, combo) :
               g1 \in ArenaGhosts(1, power, ll[3]), g2 \in ArenaGhosts(2, power, ll[3]),
               g3 \in ArenaGhosts(3, power, ll[3]), g4 \in ArenaGhosts(4, power, ll[3]),
               lives \in {1, INITIAL_LIVES},
               combo \in {1, 2}} :
           power \in BOOLEAN, ll \in ArenaLevels}

\* the Games a frame of another phase begins with: the level complete
\* (or the game won) with a ghost still Eaten, the game over with the
\* ghost that took the last life on the player, the game paused; and the
\* Game of a Playing frame that begins with the player at the upper end of
\* the corridor, the wall of row 0 ahead, and the ghosts far away
ArenaPhaseGames ==
    LET away(y) == [i \in GhostIds |-> CHOOSE g \in ArenaGhosts(i, FALSE, y) :
                                          g.eaten \/ g.rect.y # y - TILE_SIZE]
        gs(y) == [i \in GhostIds |-> CHOOSE g \in ArenaGhosts(i, FALSE, y) : ~g.eaten]
        won(level) == [ArenaGame(away(54), {}, level, 54, TRUE, INITIAL_LIVES, 1)
                          EXCEPT !.game_won = TRUE]
        over == [ArenaGame([away(54) EXCEPT
                               ![1] = Placed(ArenaBase.ghosts[1], 20, 38,
                                             <<0, MOVE_SPEED>>, 20)],
                           {<<1, 2>>, <<1, 3>>}, 1, 54, TRUE, 1, 1)
                    EXCEPT !.lives = 0, !.game_over = TRUE]
        paused == [ArenaGame(gs(76), {<<1, 2>>, <<1, 3>>}, 1, 76, FALSE, 1, 1)
                      EXCEPT !.paused = TRUE]
        far == [i \in GhostIds |->
                   Placed(ArenaBase.ghosts[i], 20, 180, <<MOVE_SPEED, 0>>, 0)]
        stopping == ArenaGame(far, {<<1, 2>>, <<1, 3>>}, 1, 20, TRUE, INITIAL_LIVES, 1)
    IN  {won(level) : level \in 1 .. LAST_LEVEL} \cup {over, paused, stopping}

\* an arena frame, or Game.__init__
InitArena ==
    /\ game \in ArenaGames \cup ArenaPhaseGames \cup {NewGame(d) : d \in Draws}
    /\ FPS = INITIAL_FPS
    /\ pc = "handle_events"
    /\ gi = 1
    /\ pellet_tick = FALSE
    /\ frame = 0

\* the game from an arena frame on
SpecArena == InitArena /\ [][Next]_vars

-----------------------------------------------------------------------------
(* The player alone in the maze: the frames of Game.run as the player sees
   them, from Game.__init__ with the menu closed.  Each frame handle_events
   stores the direction key held and Player.move runs; the rest of the tick
   does not touch the player unless a ghost catches it, and reset_positions
   then puts it back where this specification begins.  With the player
   outside the grid there is no wall in any direction: it is followed for
   MaxOutside steps from the edge. *)

\* how far, in pixels, a rect reaches beyond the pixel area of the grid
Outside(rect) ==
    LET over == {0, -rect.x, rect.x + rect.w - WIDTH,
                 -rect.y, rect.y + rect.h - Len(MAZE) * TILE_SIZE}
    IN  CHOOSE m \in over : \A n \in over : n <= m

InitPlayer ==
    /\ game = [ArenaBase EXCEPT !.show_menu = FALSE]
    /\ FPS = INITIAL_FPS
    /\ pc = "handle_events"
    /\ gi = 1
    /\ pellet_tick = FALSE
    /\ frame = 0

\* Game.handle_events of a Playing frame, as far as the player goes
PlayerKeys ==
    /\ pc = "handle_events"
    /\ \E keys \in KeySets : game' = HandleDirectionKeys(game, keys)
    /\ pc' = "player_move"
    /\ UNCHANGED <<FPS, gi, pellet_tick, frame>>

\* self.player.move(MAZE) of Game.run
PlayerStep ==
    /\ pc = "player_move"
    /\ Outside(game.player.rect) < MaxOutside * MOVE_SPEED
    /\ game' = [game EXCEPT !.player = PlayerMove(@)]
    /\ pc' = "handle_events"
    /\ UNCHANGED <<FPS, gi, pellet_tick, frame>>

NextPlayer == PlayerKeys \/ PlayerStep

SpecPlayer == InitPlayer /\ [][NextPlayer]_vars

-----------------------------------------------------------------------------
(* One ghost through the ticks of Game.run: ghost 1 of Game.__init__, on
   its spawn tile, where every step it tries is blocked.  Each tick runs
   update_power_pellets, Ghost.move of that ghost and check_collisions, as
   Game.run does.  The player's walk is not modelled: for the call that
   consumes a power pellet, or whose collision pass eats the ghost, the
   player's rect is put on the pellet, or on the ghost, and the call is
   the program's; a pellet can be consumed in the ticks PelletTicks and
   the ghost eaten in the tick EatTick.  No life is lost and no level
   ends, so no reset runs; the other ghosts are left alone. *)

\* the ticks in which a power pellet can be consumed, and the pellets
PelletTicks == <<1, 31, 81>>
PelletOrder == <<(<<3, 1>>), (<<3, 25>>), (<<19, 1>>)>>

\* the Game with the player's rect at (x, y)
PlayerAt(g, x, y) == [g EXCEPT !.player.rect.x = x, !.player.rect.y = y]

InitGhost ==
    /\ game = [ArenaBase EXCEPT !.show_menu = FALSE]
    /\ FPS = INITIAL_FPS
    /\ pc = "update_power_pellets"
    /\ gi = 1
    /\ pellet_tick = FALSE
    /\ frame = 0

\* self.update_power_pellets() of tick frame + 1, with the player on no
\* pellet or on the pellet that tick can consume
GhostPellets ==
    /\ pc = "update_power_pellets"
    /\ frame < MaxTicks
    /\ frame' = frame + 1
    /\ \/ /\ game' = update_power_pellets(game)
          /\ pellet_tick' = FALSE
       \/ \E k \in DOMAIN PelletTicks :
             /\ PelletTicks[k] = frame + 1
             /\ LET rc == PelletOrder[k]
                    g1 == update_power_pellets(
                              PlayerAt(game, rc[2] * TILE_SIZE, rc[1] * TILE_SIZE))
                IN  game' = [g1 EXCEPT !.player = game.player]
             /\ pellet_tick' = TRUE
    /\ pc' = "ghost_move"
    /\ UNCHANGED <<FPS, gi>>

\* ghost.move(self.maze, self.player.rect.center, self.player.last_direction)
\* for the ghost gi
GhostStep ==
    /\ pc = "ghost_move"
    /\ \E g1 \in GhostMove(game.ghosts[gi], RectCenter(game.player.rect),
                           game.player.last_direction) :
          game' = [game EXCEPT !.ghosts[gi] = g1]
    /\ pc' = "check_collisions"
    /\ UNCHANGED <<FPS, gi, pellet_tick, frame>>

\* self.check_collisions(), with the player on no ghost or, in the tick
\* EatTick, on the ghost gi while it is vulnerable
GhostContact ==
    /\ pc = "check_collisions"
    /\ \/ game' \in check_collisions(game)
       \/ /\ frame = EatTick
          /\ game.ghosts[gi].vulnerable /\ ~game.ghosts[gi].eaten
          /\ \E g1 \in check_collisions(PlayerAt(game, game.ghosts[gi].rect.x,
                                                 game.ghosts[gi].rect.y)) :
                game' = [g1 EXCEPT !.player = game.player]
    /\ pc' = "update_power_pellets"
    /\ UNCHANGED <<FPS, gi, pellet_tick, frame>>

NextGhost == GhostPellets \/ GhostStep \/ GhostContact

SpecGhost == InitGhost /\ [][NextGhost]_vars

-----------------------------------------------------------------------------
(* Ghost.move as a function of the ghost and of the player: one ghost of
   Game.__init__, of any ai_type, Normal or made vulnerable by a power
   pellet, is put on the crossing of row 9 and column 8 with its counter
   at 0, heading right or up, and Ghost.move is called MaxMoves times.  The
   player's rect and last direction are the inputs of the calls; they are
   drawn once and held: the player in row 11, two rows below the ghost's
   and four columns to the left, or four rows below it in column 8. *)

\* the inputs player_pos and player_direction: rect.x, rect.y, last_direction
MoveInputs ==
    {<<4 * TILE_SIZE, 11 * TILE_SIZE, <<-1, 0>> >>,
     <<8 * TILE_SIZE, 13 * TILE_SIZE, <<0, 1>> >>}

InitMove ==
    /\ gi \in GhostIds
    /\ \E direction \in {<<MOVE_SPEED, 0>>, <<0, -MOVE_SPEED>>},
          power \in BOOLEAN, input \in MoveInputs :
          LET ghost == Placed(ArenaBase.ghosts[gi], 8 * TILE_SIZE, 9 * TILE_SIZE,
                              direction, 0)
          IN  game = [ArenaBase EXCEPT
                         !.show_menu = FALSE,
                         !.player.rect.x = input[1],
                         !.player.rect.y = input[2],
                         !.player.last_direction = input[3],
                         !.ghosts[gi] = IF power THEN make_vulnerable(ghost) ELSE ghost]
    /\ FPS = INITIAL_FPS
    /\ pc = "ghost_move"
    /\ pellet_tick = FALSE
    /\ frame = 0

\* ghost.move(self.maze, self.player.rect.center, self.player.last_direction)
\* for the ghost gi, call number frame + 1
GhostRun ==
    /\ pc = "ghost_move"
    /\ frame < MaxMoves
    /\ \E g1 \in GhostMove(game.ghosts[gi], RectCenter(game.player.rect),
                           game.player.last_direction) :
          game' = [game EXCEPT !.ghosts[gi] = g1]
    /\ frame' = frame + 1
    /\ UNCHANGED <<FPS, pc, gi, pellet_tick>>

SpecMove == InitMove /\ [][GhostRun]_vars

-----------------------------------------------------------------------------
(* The bonus fruit through the ticks of Game.run: update_bonus_fruit is
   called once per tick on the game of Game.__init__ with the menu closed.
   Whether the player's rect is on the fruit's tile at the call is an input
   of each tick (the player is put there for the call and back afterwards).
   An eaten fruit is recreated by next_level while level < LAST_LEVEL and by
   the restart of Game.__init__ at the last level; the ghosts take no part
   and their redrawn directions are held at right. *)
HeldDraw == [j \in GhostIds |-> <<MOVE_SPEED, 0>>]

InitFruit ==
    /\ game = [NewGame(HeldDraw) EXCEPT !.show_menu = FALSE]
    /\ FPS = INITIAL_FPS /\ pc = "update_bonus_fruit" /\ gi = 1
    /\ pellet_tick = FALSE /\ frame = 0

FruitTick ==
    /\ pc = "update_bonus_fruit"
    /\ \/ game' = update_bonus_fruit(game)
       \/ game' = [update_bonus_fruit(PlayerAt(game, 14 * TILE_SIZE, 16 * TILE_SIZE))
                      EXCEPT !.player = game.player]
    /\ UNCHANGED <<FPS, pc, gi, pellet_tick, frame>>

FruitNextLevel ==
    /\ pc = "update_bonus_fruit"
    /\ game.bonus_fruit.eaten /\ game.level < LAST_LEVEL
    /\ game' = next_level(game, HeldDraw)
    /\ FPS' = NextLevelFPS(game')
    /\ UNCHANGED <<pc, gi, pellet_tick, frame>>

FruitRestart ==
    /\ pc = "update_bonus_fruit"
    /\ game.bonus_fruit.eaten /\ game.level >= LAST_LEVEL
    /\ game' = [NewGame(HeldDraw) EXCEPT !.show_menu = FALSE]
    /\ UNCHANGED <<FPS, pc, gi, pellet_tick, frame>>

NextFruit == FruitTick \/ FruitNextLevel \/ FruitRestart

SpecFruit == InitFruit /\ [][NextFruit]_vars

-----------------------------------------------------------------------------
(* The player over every part of the maze it can come to.  Rows 7 and 15 of
   MAZE are open at both ends and no wall stands outside the grid, so the
   player can leave the grid, go round it and come back in through any
   opening of the right border: the ends of rows 7 and 15 and the cells past
   the ends of the short rows 3 and 19.  The part of the maze behind the
   right ends of rows 7 and 15 is joined to the spawn tile in no other way.
   The player is followed from its spawn tile and from each of these
   openings, where it comes in heading left. *)
RightOpenings ==
    {row_index \in 0 .. Len(MAZE) - 1 : <<row_index, WIDTH \div TILE_SIZE - 1>> \notin WallCells}

Entering(row_index) ==
    [NewPlayer(1 * TILE_SIZE, 1 * TILE_SIZE)
        EXCEPT !.rect.x = WIDTH - TILE_SIZE, !.rect.y = row_index * TILE_SIZE,
               !.dx = -MOVE_SPEED, !.dy = 0, !.last_direction = <<-1, 0>>,
               !.next_dx = -MOVE_SPEED, !.next_dy = 0]

InitRoam ==
    /\ \/ game = [ArenaBase EXCEPT !.show_menu = FALSE]
       \/ \E row_index \in RightOpenings :
             game = [ArenaBase EXCEPT !.show_menu = FALSE, !.player = Entering(row_index)]
    /\ FPS = INITIAL_FPS
    /\ pc = "handle_events"
    /\ gi = 1
    /\ pellet_tick = FALSE
    /\ frame = 0

SpecRoam == InitRoam /\ [][NextPlayer]_vars

-----------------------------------------------------------------------------
(* Definitions the properties are stated with *)

\* the phase of the run, as Game.run and draw_score read the flags
Phase(g) ==
    IF g.show_menu THEN "Menu"
    ELSE IF g.game_over THEN "GameOver"
    ELSE IF g.game_won
    THEN IF g.level >= LAST_LEVEL THEN "Won" ELSE "LevelComplete"
    ELSE IF g.paused THEN "Paused"
    ELSE "Playing"

\* the state of a ghost: contact with the player eats a Vulnerable ghost,
\* costs a life with a Normal one and does nothing with an Eaten one
GhostState(ghost) ==
    IF ghost.eaten THEN "Eaten"
    ELSE IF ghost.vulnerable THEN "Vulnerable"
    ELSE "Normal"

\* ghost i overlaps the player
Overlaps(g, i) == colliderect(g.player.rect, g.ghosts[i].rect)

\* the ghosts a collision pass that begins with g finds on the player
Catchers(g) == {i \in GhostIds : Overlaps(g, i) /\ GhostState(g.ghosts[i]) = "Normal"}
Preys(g)    == {i \in GhostIds : Overlaps(g, i) /\ GhostState(g.ghosts[i]) = "Vulnerable"}

\* a frame has run to its end
FrameDone == pc = "handle_events" /\ frame > 0

\* the frames that follow Game.__init__: no dot but the one under the
\* spawn tile of the player is eaten
AfterConstruction ==
    /\ \A rc \in DotCells : game.dots[rc] => rc = <<1, 1>>
    /\ \A rc \in PelletCells : ~game.power_pellets[rc]

\* the step re-constructs the game
Reinitialised == ~game.show_menu /\ game' \in {NewGame(d) : d \in Draws}

\* rectangles of the player and of the four ghosts
Rects(g) == <<g.player.rect, [i \in GhostIds |-> g.ghosts[i].rect]>>

-----------------------------------------------------------------------------
(* C1 *)

\* C1 (as claimed): once Player.move has run, the player's rectangle
\* overlaps no wall tile, and once Ghost.move has run for a ghost, that
\* ghost's rectangle overlaps no wall tile.  Stated for the frames that
\* follow Game.__init__ with the fixed MAZE.
C1_NoEntityOnWallAfterMove ==
    AfterConstruction =>
        /\ pc = "update_dots" => ~collides_with_walls(game.player.rect)
        /\ \A i \in GhostIds :
              (pc = "check_collisions" \/ (pc = "ghost_move" /\ i < gi))
                  => ~collides_with_walls(game.ghosts[i].rect)

-----------------------------------------------------------------------------
(* C2 *)

\* C2 (as claimed): a tick that eats the last uneaten dot ends with the
\* level complete: game_won is true and game_over is false, whatever the
\* ghosts do in the collision pass of that tick.
C2_LastDotEndsLevelComplete ==
    (FrameDone /\ game.game_won) => ~game.game_over

-----------------------------------------------------------------------------
(* C3 *)

\* ghost i turns Eaten, or stops being Eaten, in the step
TurnsEaten(i) == ~game.ghosts[i].eaten /\ game'.ghosts[i].eaten
LeavesEaten(i) == game.ghosts[i].eaten /\ ~game'.ghosts[i].eaten

\* the step is ghost i's Ghost.respawn bringing its timer to zero
OwnRespawnExpiry(i) ==
    /\ pc = "ghost_move" /\ gi = i
    /\ game.ghosts[i].respawn_timer = 1
    /\ game'.ghosts[i].respawn_timer = 0

\* the step ran Ghost.reset on every ghost: reset_positions after a life
\* loss that leaves lives, or next_level
GhostsReset ==
    \/ pc = "check_collisions" /\ game'.lives < game.lives /\ game'.lives > 0
    \/ pc = "level_progression" /\ game'.level = game.level + 1

\* C3 (as claimed), over the steps of a tick: a ghost turns Eaten only in
\* check_collisions, on the player while vulnerable and not eaten, and an
\* Eaten ghost stops being Eaten only when its own respawn timer reaches
\* zero in Ghost.respawn, never through a collision of the player with a
\* ghost in the collision pass.
C3_EatenLeftOnlyByRespawn ==
    [][pc \notin {"handle_events", "level_progression"} =>
          \A i \in GhostIds :
             /\ TurnsEaten(i) => (pc = "check_collisions" /\ Overlaps(game, i)
                                     /\ game.ghosts[i].vulnerable)
             /\ LeavesEaten(i) => OwnRespawnExpiry(i)]_vars

\* C3 (amended): a ghost turns Eaten only in check_collisions, on the
\* player while vulnerable and not eaten; an Eaten ghost stops being Eaten
\* only when its own respawn timer reaches zero in Ghost.respawn, when
\* Ghost.reset runs on it (reset_positions after another ghost costs a
\* life that leaves lives, or next_level), or when Game.__init__ runs again.
C3_EatenLeftByRespawnOrReset ==
    [][\A i \in GhostIds :
          /\ TurnsEaten(i) => (pc = "check_collisions" /\ Overlaps(game, i)
                                  /\ game.ghosts[i].vulnerable)
          /\ LeavesEaten(i) =>
                (OwnRespawnExpiry(i) \/ GhostsReset \/ Reinitialised)]_vars

\* a frame in which one ghost has been eaten and another has respawned
\* with its vulnerability timer still running
C3_Witness ==
    /\ FrameDone
    /\ \E i \in GhostIds :
          game.ghosts[i].eaten /\ game.ghosts[i].respawn_timer = RESPAWN_FRAMES
    /\ \E j \in GhostIds :
          /\ ~game.ghosts[j].eaten /\ ~game.ghosts[j].vulnerable
          /\ game.ghosts[j].vulnerability_timer > 0
          /\ game.ghosts[j].rect.x = game.ghosts[j].start_x
          /\ game.ghosts[j].rect.y = game.ghosts[j].start_y

-----------------------------------------------------------------------------
(* C4 *)

\* C4 (as claimed): a collision pass that begins with lives = 1 and at
\* least one Normal ghost on the player ends with lives = 0, the game over
\* and every rectangle where it was.
C4_LastLifeEndsAtZero ==
    [][(pc = "check_collisions" /\ game.lives = 1 /\ Catchers(game) # {})
          => /\ game'.lives = 0
             /\ game'.game_over
             /\ Rects(game') = Rects(game)]_vars

-----------------------------------------------------------------------------
(* C5 and C6: the closed form of a collision pass *)

\* the ghost whose catch runs reset_positions: the first catcher when the
\* pass begins with a life to spare, past the last ghost otherwise
ResetIndex(g) ==
    IF g.lives > 1 /\ Catchers(g) # {}
    THEN CHOOSE i \in Catchers(g) : \A j \in Catchers(g) : i <= j
    ELSE Len(g.ghosts) + 1

\* the ghosts the pass eats
EatenInPass(g) == {i \in Preys(g) : i < ResetIndex(g)}

\* 200 * (c + (c+1) + ... + (c+k-1))
ComboAward(c, k) == GHOST_SCORE * (k * c + (k * (k - 1)) \div 2)

\* the entity is on its spawn position
AtSpawn(e) == e.rect.x = e.start_x /\ e.rect.y = e.start_y

\* C5: a collision pass that begins with lives > 1 and a Normal ghost on
\* the player takes exactly one life, leaves the player and the four
\* ghosts on their spawn positions with every ghost Normal and both its
\* timers 0, and leaves dots, power pellets, fruit, level and phase as they
\* were; the score moves only by the ghosts eaten before the catch.
C5_LifeLossWithLivesLeft ==
    [][(pc = "check_collisions" /\ game.lives > 1 /\ Catchers(game) # {})
          => /\ game'.lives = game.lives - 1
             /\ AtSpawn(game'.player)
             /\ \A i \in GhostIds :
                   /\ AtSpawn(game'.ghosts[i])
                   /\ GhostState(game'.ghosts[i]) = "Normal"
                   /\ game'.ghosts[i].vulnerability_timer = 0
                   /\ game'.ghosts[i].respawn_timer = 0
             /\ game'.dots = game.dots
             /\ game'.power_pellets = game.power_pellets
             /\ game'.bonus_fruit = game.bonus_fruit
             /\ game'.level = game.level
             /\ Phase(game') = Phase(game)
             /\ game'.score = game.score
                   + ComboAward(game.ghost_combo, Cardinality(EatenInPass(game)))]_vars

\* a frame that began with three lives has ended with two, the player on
\* its spawn position, after two Normal ghosts were on the player
C5_Witness ==
    /\ FrameDone
    /\ game.lives = INITIAL_LIVES - 1
    /\ AtSpawn(game.player)
    /\ \A i \in GhostIds : AtSpawn(game.ghosts[i])
    /\ game.score > 0

\* C6: a collision pass eats every ghost that is on the player while
\* vulnerable and not eaten (up to a catch that resets the positions):
\* k ghosts eaten from combo c add 200*(c + (c+1) + ... + (c+k-1)) to the
\* score and leave the combo at c+k; when no reset runs each of them is
\* Eaten with respawn timer 60, nothing else of a ghost or of the player
\* changes, and without a catcher lives are unchanged.
C6_EatAwardsCombo ==
    [][pc = "check_collisions"
          => LET E == EatenInPass(game)
                 k == Cardinality(E)
             IN  /\ game'.score = game.score + ComboAward(game.ghost_combo, k)
                 /\ game'.ghost_combo = game.ghost_combo + k
                 /\ ResetIndex(game) > Len(game.ghosts)
                       => /\ game'.player = game.player
                          /\ \A i \in GhostIds :
                                game'.ghosts[i] =
                                   IF i \in E
                                   THEN [game.ghosts[i] EXCEPT
                                            !.eaten = TRUE,
                                            !.respawn_timer = RESPAWN_FRAMES]
                                   ELSE game.ghosts[i]
                 /\ Catchers(game) = {} => game'.lives = game.lives]_vars

\* a frame in which the pass ate two ghosts or more, the second for more
\* than the first
C6_Witness ==
    /\ FrameDone
    /\ Cardinality({i \in GhostIds : /\ game.ghosts[i].eaten
                                     /\ game.ghosts[i].respawn_timer = RESPAWN_FRAMES}) >= 2
    /\ game.ghost_combo >= 3
    /\ ~game.game_over

-----------------------------------------------------------------------------
(* C7 *)

\* C7 (as claimed): when update_power_pellets consumes a power pellet,
\* all four ghosts, Normal, Vulnerable or Eaten before, are in state
\* Vulnerable with vulnerability timer POWER_PELLET_DURATION, the combo is
\* 1, the pellet is marked eaten and the score is 50 more.
C7_PelletMakesAllVulnerable ==
    [][(pc = "update_power_pellets" /\ PelletsHit(game) # {})
          => /\ \A i \in GhostIds :
                   /\ GhostState(game'.ghosts[i]) = "Vulnerable"
                   /\ game'.ghosts[i].vulnerability_timer = POWER_PELLET_DURATION
             /\ game'.ghost_combo = 1
             /\ \A rc \in PelletsHit(game) : game'.power_pellets[rc]
             /\ game'.score = game.score + POWER_PELLET_SCORE]_vars

\* C7 (amended): when update_power_pellets consumes a power pellet, all
\* four ghosts have the vulnerable flag set and vulnerability timer
\* POWER_PELLET_DURATION; a ghost that was Normal or Vulnerable is in state
\* Vulnerable, a ghost that was Eaten stays Eaten with its respawn timer as
\* it was; the combo is 1, the pellet is marked eaten and the score is 50
\* more.
C7_PelletSetsVulnerableFlag ==
    [][(pc = "update_power_pellets" /\ PelletsHit(game) # {})
          => /\ \A i \in GhostIds :
                   /\ game'.ghosts[i].vulnerable
                   /\ game'.ghosts[i].vulnerability_timer = POWER_PELLET_DURATION
                   /\ game'.ghosts[i].eaten = game.ghosts[i].eaten
                   /\ game'.ghosts[i].respawn_timer = game.ghosts[i].respawn_timer
                   /\ GhostState(game'.ghosts[i]) =
                         IF game.ghosts[i].eaten THEN "Eaten" ELSE "Vulnerable"
             /\ game'.ghost_combo = 1
             /\ \A rc \in PelletsHit(game) : game'.power_pellets[rc]
             /\ \A rc \in PelletCells \ PelletsHit(game) :
                   game'.power_pellets[rc] = game.power_pellets[rc]
             /\ game'.score = game.score + POWER_PELLET_SCORE]_vars

\* a pellet has just been consumed with a ghost Eaten, a ghost that was
\* Vulnerable with less of its timer left and a ghost that was Normal
C7_Witness ==
    /\ pc = "update_bonus_fruit"
    /\ pellet_tick
    /\ GhostState(game.ghosts[1]) = "Eaten"
    /\ game.ghosts[1].vulnerability_timer = POWER_PELLET_DURATION
    /\ GhostState(game.ghosts[3]) = "Vulnerable"
    /\ game.ghosts[3].rect.y = game.player.rect.y - TILE_SIZE + MOVE_SPEED
    /\ GhostState(game.ghosts[4]) = "Vulnerable"
    /\ game.ghost_combo = 1

-----------------------------------------------------------------------------
(* C8 *)

\* C8: ghost_combo is 1 after a step that consumes a power pellet or
\* constructs the game, is raised by one for each ghost a collision pass
\* eats, and is left alone by every other step (life loss, respawn,
\* vulnerability expiry and level advance among them).
C8_ComboCountsEats ==
    [][game'.ghost_combo =
          IF pc = "update_power_pellets" /\ PelletsHit(game) # {} THEN 1
          ELSE IF pc \in {"handle_events", "level_progression"} /\ Reinitialised THEN 1
          ELSE IF pc = "check_collisions"
          THEN game.ghost_combo + Cardinality(EatenInPass(game))
          ELSE game.ghost_combo]_vars

\* a pellet has set the combo back to 1 and the collision pass of the
\* same frame has raised it by the two ghosts or more it ate
C8_Witness ==
    /\ FrameDone
    /\ pellet_tick
    /\ game.ghost_combo >= 3
    /\ game.ghost_combo =
          1 + Cardinality({i \in GhostIds : /\ game.ghosts[i].eaten
                                            /\ game.ghosts[i].respawn_timer = RESPAWN_FRAMES})

-----------------------------------------------------------------------------
(* C9 *)

\* the move of ghost `before` to `after` is a move by the flee rule
FleeMove(before, after, player_pos) ==
    LET timer     == before.direction_change_timer + 1
        direction == IF timer % 10 = 0
                     THEN FleeDirection(before, player_pos)
                     ELSE before.direction
        new_rect  == RectMove(before.rect, direction[1], direction[2])
    IN  /\ after.direction_change_timer = timer
        /\ IF collides_with_walls(new_rect)
           THEN after.rect = before.rect /\ after.direction \in Cardinals
           ELSE after.rect = new_rect /\ after.direction = direction

\* C9: in a tick whose update_power_pellets consumed a power pellet, a
\* ghost that is not Eaten is vulnerable when its Ghost.move begins, is
\* still vulnerable when it ends and moves by the flee rule; in the
\* collision pass of that tick every ghost on the player that is not Eaten
\* is vulnerable and is eaten, and no life is lost.
C9_PelletTickGhostsVulnerable ==
    [][pellet_tick =>
          /\ (pc = "ghost_move" /\ ~game.ghosts[gi].eaten)
                => /\ game.ghosts[gi].vulnerable
                   /\ GhostState(game'.ghosts[gi]) = "Vulnerable"
                   /\ FleeMove(game.ghosts[gi], game'.ghosts[gi],
                               RectCenter(game.player.rect))
          /\ pc = "check_collisions"
                => /\ game'.lives = game.lives
                   /\ game'.game_over = game.game_over
                   /\ \A i \in GhostIds :
                         (Overlaps(game, i) /\ ~game.ghosts[i].eaten)
                            => /\ game.ghosts[i].vulnerable
                               /\ game'.ghosts[i].eaten
                               /\ game'.ghosts[i].respawn_timer = RESPAWN_FRAMES]_vars

\* a pellet tick has ended in which a ghost that began the tick Normal
\* turned away from the player by the flee rule, and another that began
\* it Normal came onto the player and was eaten, lives as they were
C9_Witness ==
    /\ FrameDone
    /\ pellet_tick
    /\ game.lives = INITIAL_LIVES
    /\ ~game.ghosts[1].eaten
    /\ game.ghosts[1].direction_change_timer = 20
    /\ game.ghosts[1].direction = <<0, -MOVE_SPEED>>
    /\ game.ghosts[1].vulnerability_timer = POWER_PELLET_DURATION - 1
    /\ game.ghosts[2].eaten
    /\ game.ghosts[2].respawn_timer = RESPAWN_FRAMES
    /\ game.ghosts[2].vulnerability_timer = POWER_PELLET_DURATION - 1

-----------------------------------------------------------------------------
(* C10 *)

\* C10 (as claimed): handle_events and the key check of Game.run
\* re-construct the game only in phase GameOver or Won; in Playing, Paused
\* and LevelComplete they never do, and in Menu, where R is not a legal
\* request, handle_events changes nothing but show_menu.
C10_RestartOnlyWhenOverOrWon ==
    [][(pc \in {"handle_events", "level_progression"})
          => /\ Reinitialised => Phase(game) \in {"GameOver", "Won"}
             /\ Phase(game) = "Menu" => [game' EXCEPT !.show_menu = TRUE] = game]_vars

-----------------------------------------------------------------------------
(* C11 *)

\* C11 (as claimed): in a frame that begins in LevelComplete, handle_events
\* leaves the game won, with its level and score, for the key test of
\* Game.run, whatever keys are held, R among them; when that test finds R
\* held the level rises by exactly 1, score and lives keep their values,
\* dots, power pellets and fruit are new, the player and the ghosts are on
\* their spawn positions and the phase is Playing; within a run the level
\* never decreases and never exceeds LAST_LEVEL.
C11_ConfirmAdvancesLevel ==
    [][/\ (pc = "handle_events" /\ Phase(game) = "LevelComplete")
             => /\ pc' = "level_progression"
                /\ Phase(game') = "LevelComplete"
                /\ game'.level = game.level
                /\ game'.score = game.score
       /\ (pc = "level_progression" /\ Phase(game) = "LevelComplete" /\ game' # game)
             => /\ game'.level = game.level + 1
                /\ game'.score = game.score
                /\ game'.lives = game.lives
                /\ game'.dots = create_dots
                /\ game'.power_pellets = create_power_pellets
                /\ game'.bonus_fruit = NewFruit(14 * TILE_SIZE, 16 * TILE_SIZE)
                /\ AtSpawn(game'.player)
                /\ \A i \in GhostIds : AtSpawn(game'.ghosts[i])
                /\ Phase(game') = "Playing"
       /\ game'.level <= LAST_LEVEL
       /\ game'.level < game.level => (game.level >= LAST_LEVEL \/ game.game_over)]_vars

-----------------------------------------------------------------------------
(* C12 *)

\* C12: while the phase is Menu or Paused a frame changes no simulation
\* state, whatever keys are held: a frame that begins in Menu or Paused and
\* does not leave it ends after handle_events, with no tick, the game and
\* the frame rate identical to what they were before the frame.  Only the
\* start key (from Menu) or a pause toggle (from Paused) changes the phase,
\* and then to Playing: handle_events changes show_menu, or paused and
\* (the game running again, line 634) the queued direction of the player,
\* and nothing else, and the frame goes on with the tick of Playing.
C12_MenuPausedFrameIdle ==
    [][(pc = "handle_events" /\ Phase(game) \in {"Menu", "Paused"})
          => /\ FPS' = FPS
             /\ Phase(game') = Phase(game)
                   => game' = game /\ pc' = "handle_events"
             /\ Phase(game') # Phase(game)
                   => /\ Phase(game') = "Playing"
                      /\ pc' = "player_move"
                      /\ Phase(game) = "Menu"
                            => game' = [game EXCEPT !.show_menu = FALSE]
                      /\ Phase(game) = "Paused"
                            => \E direction \in Cardinals :
                                  game' = [game EXCEPT
                                              !.paused = FALSE,
                                              !.player.next_dx = direction[1],
                                              !.player.next_dy = direction[2]]]_vars

\* A frame has ended with the game paused.
C12_Witness == FrameDone /\ Phase(game) = "Paused" /\ game.power_mode

-----------------------------------------------------------------------------
(* C13 *)

\* C13: Game.__init__ gives 3 lives; in every state between two calls of
\* Game.run's frame game_over is true if and only if lives <= 0; lives never
\* increase within a run (a step that constructs the game again begins a new
\* run); and once game_over is true no simulation step runs until the
\* restart: the frame ends after handle_events, and lives, score, level, the
\* ghosts, the dots, the power pellets, the fruit and the player are as they
\* were (handle_events, which is input handling and no simulation step, may
\* still store the direction key held as the player's queued direction).
C13_LivesAndGameOver ==
    /\ [](/\ \A d \in Draws : NewGame(d).lives = INITIAL_LIVES
          /\ game.game_over <=> game.lives <= 0)
    /\ [][/\ game'.lives > game.lives
             => game' \in {NewGame(d) : d \in Draws}
          /\ game.game_over
             => \/ game' \in {NewGame(d) : d \in Draws}
                \/ /\ pc = "handle_events" /\ pc' = "handle_events"
                   /\ FPS' = FPS
                   /\ game' = [game EXCEPT
                                  !.player.next_dx = game'.player.next_dx,
                                  !.player.next_dy = game'.player.next_dy]]_vars

\* A frame has ended with the game over and no life left.
C13_Witness == FrameDone /\ game.game_over /\ game.lives = 0 /\ ~game.game_won

-----------------------------------------------------------------------------
(* C14 *)

\* the flags of a function of eaten flags that a step turns on
TurnedOn(before, after) == {rc \in DOMAIN before : ~before[rc] /\ after[rc]}

\* C14: within a run (a step that constructs the game again begins a new
\* one) the score never decreases, across a life loss and a level advance
\* too, and every step of a tick changes it by a sum of the additions of the
\* code: update_dots by 10 for each dot it marks eaten, update_power_pellets
\* by 50 for each pellet it marks eaten, update_bonus_fruit by 100, 300 or
\* 500 according to the type of the fruit it marks eaten, check_collisions
\* by 200*combo for each of the k ghosts it eats, the combo rising by one
\* with each; no other step (handle_events, next_level, the moves) changes
\* the score.
C14_ScoreAdditions ==
    [][game' \notin {NewGame(d) : d \in Draws}
          => LET gain == game'.score - game.score
             IN  /\ gain >= 0
                 /\ pc = "update_dots"
                       => gain = DOT_SCORE * Cardinality(TurnedOn(game.dots, game'.dots))
                 /\ pc = "update_power_pellets"
                       => gain = POWER_PELLET_SCORE *
                                    Cardinality(TurnedOn(game.power_pellets,
                                                         game'.power_pellets))
                 /\ pc = "update_bonus_fruit"
                       => gain = IF ~game.bonus_fruit.eaten /\ game'.bonus_fruit.eaten
                                 THEN <<100, 300, 500>>[game'.bonus_fruit.fruit_type + 1]
                                 ELSE 0
                 /\ pc = "check_collisions"
                       => \E k \in 0 .. Len(game.ghosts) :
                             gain = ComboAward(game.ghost_combo, k)
                 /\ pc \notin {"update_dots", "update_power_pellets",
                               "update_bonus_fruit", "check_collisions"}
                       => gain = 0]_vars

\* The second level has begun with the score of the first.
C14_Witness ==
    /\ pc = "handle_events" /\ frame > 0
    /\ game.level = 2 /\ game.score > 0
    /\ \A rc \in DotCells : ~game.dots[rc]

-----------------------------------------------------------------------------
(* C15 *)

\* the change of a rectangle from one state to the next: one step of
\* MOVE_SPEED pixels along one axis, or none
OneStep(before, after) ==
    /\ after.w = before.w /\ after.h = before.h
    /\ <<after.x - before.x, after.y - before.y>> \in Cardinals \cup {<<0, 0>>}

\* C15: in every state the velocity of the player is one of the four
\* cardinal vectors of magnitude MOVE_SPEED or (0,0), and the queued
\* direction of the player and the direction of every ghost are cardinal
\* vectors of magnitude MOVE_SPEED; a call of move changes the rectangle of
\* its entity by MOVE_SPEED pixels along one axis or not at all, unless
\* Ghost.respawn puts the ghost back on its spawn position, and no
\* rectangle changes otherwise but by a reset (reset_positions, next_level
\* or the construction of the game), which puts it on its spawn position.
C15_CardinalVelocities ==
    /\ [](/\ <<game.player.dx, game.player.dy>> \in Cardinals \cup {<<0, 0>>}
          /\ <<game.player.next_dx, game.player.next_dy>> \in Cardinals
          /\ \A i \in GhostIds : game.ghosts[i].direction \in Cardinals)
    /\ [][/\ \/ /\ pc = "player_move"
                /\ OneStep(game.player.rect, game'.player.rect)
                /\ game'.player.rect # game.player.rect
                      => <<game'.player.rect.x - game.player.rect.x,
                           game'.player.rect.y - game.player.rect.y>>
                            = <<game'.player.dx, game'.player.dy>>
             \/ game'.player.rect = game.player.rect
             \/ /\ pc \in {"handle_events", "level_progression", "check_collisions"}
                /\ AtSpawn(game'.player)
          /\ \A i \in GhostIds :
                \/ /\ pc = "ghost_move" /\ i = gi
                   /\ \/ OneStep(game.ghosts[i].rect, game'.ghosts[i].rect)
                      \/ game.ghosts[i].eaten /\ ~game'.ghosts[i].eaten
                                              /\ AtSpawn(game'.ghosts[i])
                \/ game'.ghosts[i].rect = game.ghosts[i].rect
                \/ /\ pc \in {"handle_events", "level_progression", "check_collisions"}
                   /\ AtSpawn(game'.ghosts[i])]_vars

\* The player has run into a wall and stopped: its velocity is (0,0).
C15_Witness ==
    /\ FrameDone /\ Phase(game) = "Playing"
    /\ game.player.dx = 0 /\ game.player.dy = 0

-----------------------------------------------------------------------------
(* C16 *)

\* the cells on the outer border of the grid: the first and the last row,
\* and the first and the last cell of every row
BorderCells ==
    {rc \in Cells : \/ rc[1] \in {0, Len(MAZE) - 1}
                    \/ rc[2] \in {0, Len(MAZE[rc[1] + 1]) - 1}}

\* the border cells that are no Wall cells: (7,0), (7,27), (15,0), (15,27)
BorderGaps == {rc \in BorderCells : Cell(rc[1], rc[2]) # "1"}

\* C16 (as claimed): every cell of the outer border is a Wall cell, and so
\* in every state, whatever direction keys were held, the rectangle of the
\* player lies inside the pixel area of the grid: x >= 0, y >= 0,
\* x + TILE_SIZE <= WIDTH and y + TILE_SIZE <= 23 * TILE_SIZE.
C16_PlayerInsideGrid ==
    /\ game.player.rect.x >= 0
    /\ game.player.rect.y >= 0
    /\ game.player.rect.x + TILE_SIZE <= WIDTH
    /\ game.player.rect.y + TILE_SIZE <= Len(MAZE) * TILE_SIZE

-----------------------------------------------------------------------------
(* C17 *)

\* a tick of the ghost's specification has ended
TickDone == pc = "update_power_pellets" /\ frame > 0

\* C17 (as claimed): at the end of every tick a ghost that is not Eaten has
\* one of the vulnerable colours, BLUE or WHITE, if and only if it is
\* vulnerable, and a ghost that is neither eaten nor vulnerable has its
\* original colour.
C17_ColourShowsVulnerable ==
    TickDone
       => LET ghost == game.ghosts[gi]
          IN  ~ghost.eaten
                 => /\ ghost.color \in {"BLUE", "WHITE"} <=> ghost.vulnerable
                    /\ ~ghost.vulnerable => ghost.color = ghost.original_color

-----------------------------------------------------------------------------
(* C18 *)

\* a step of <<dx, dy>> from rect overlaps no wall
WallFree(rect, v) ==
    \A rc \in WallCells : ~colliderect(RectMove(rect, v[1], v[2]), WallRect(rc))

\* C18: Player.move replaces the velocity by the queued direction if and
\* only if the two differ and a step in the queued direction overlaps no
\* wall, and last_direction is then the sign of the new velocity (it is
\* untouched otherwise); the rectangle then advances by the resulting
\* velocity if that overlaps no wall, and otherwise the rectangle is
\* unchanged and the velocity becomes (0,0).  move never changes the queued
\* direction, so a blocked intent stays queued and is committed by the
\* first later call that finds the step in its direction free.
C18_PlayerMoveSemantics ==
    [][pc = "player_move"
          => LET p        == game.player
                 q        == game'.player
                 queued   == <<p.next_dx, p.next_dy>>
                 turns    == queued # <<p.dx, p.dy>> /\ WallFree(p.rect, queued)
                 velocity == IF turns THEN queued ELSE <<p.dx, p.dy>>
             IN  /\ <<q.next_dx, q.next_dy>> = queued
                 /\ q.last_direction =
                       IF turns THEN <<Sign(queued[1]), Sign(queued[2])>>
                       ELSE p.last_direction
                 /\ IF WallFree(p.rect, velocity)
                    THEN /\ q.rect = [p.rect EXCEPT !.x = @ + velocity[1],
                                                    !.y = @ + velocity[2]]
                         /\ <<q.dx, q.dy>> = velocity
                    ELSE /\ q.rect = p.rect
                         /\ <<q.dx, q.dy>> = <<0, 0>>
                 /\ q.start_x = p.start_x /\ q.start_y = p.start_y]_vars

\* The player, having turned down into the corridor of column 6 when the
\* queued DOWN became free, has run into the wall at its lower end and
\* stopped there.
C18_Witness ==
    /\ pc = "handle_events"
    /\ game.player.rect.x = 6 * TILE_SIZE
    /\ game.player.last_direction = <<0, 1>>
    /\ game.player.dx = 0 /\ game.player.dy = 0
    /\ ~WallFree(game.player.rect, <<0, MOVE_SPEED>>)

-----------------------------------------------------------------------------
(* C19 *)

\* the power pellets consumed so far
PelletsEaten(g) == {rc \in PelletCells : g.power_pellets[rc]}

\* a collision pass has eaten the ghost (the score holds more than the
\* pellets gave): it did so in tick EatTick
HasBeenEaten(g) == g.score # POWER_PELLET_SCORE * Cardinality(PelletsEaten(g))

\* C19: a ghost eaten in the collision pass of tick t = EatTick is Eaten
\* until Ghost.move of tick t+60 and not after; while it is Eaten, Ghost.move
\* (ticks t+1 .. t+59) changes nothing of it but the respawn timer, which it
\* lowers by one, and a power pellet consumed meanwhile leaves it Eaten;
\* Ghost.move of tick t+60 puts it on its spawn position, and at the end of
\* tick t+60 it is Normal, neither eaten nor vulnerable, whether or not a
\* pellet was consumed while it was Eaten.
C19_EatenIsInertForSixtyTicks ==
    /\ [](LET ghost == game.ghosts[gi]
              back  == EatTick + RESPAWN_FRAMES
          IN  /\ ghost.eaten
                    <=> /\ HasBeenEaten(game)
                        /\ frame < back \/ (frame = back /\ pc = "ghost_move")
              /\ ghost.eaten
                    => ghost.respawn_timer =
                          back - frame + (IF pc = "ghost_move" THEN 1 ELSE 0)
              /\ (HasBeenEaten(game) /\ frame = back /\ pc # "ghost_move")
                    => /\ GhostState(ghost) = "Normal"
                       /\ ~ghost.vulnerable
                       /\ AtSpawn(ghost))
    /\ [][(pc = "ghost_move" /\ game.ghosts[gi].eaten /\ frame < EatTick + RESPAWN_FRAMES)
             => game'.ghosts[gi] = [game.ghosts[gi] EXCEPT !.respawn_timer = @ - 1]]_vars

\* Tick EatTick + 60 has ended for a ghost that was eaten in tick EatTick,
\* a power pellet having been consumed while it was Eaten.
C19_Witness ==
    /\ TickDone /\ frame = EatTick + RESPAWN_FRAMES
    /\ HasBeenEaten(game)
    /\ game.power_pellets[PelletOrder[2]]
    /\ game.ghosts[gi].vulnerability_timer = POWER_PELLET_DURATION

-----------------------------------------------------------------------------
(* C20 *)

\* the tick of the last power pellet consumed so far, 0 if there is none
LastPelletTick(g) ==
    LET ticks == {0} \cup {PelletTicks[k] : k \in {j \in DOMAIN PelletTicks :
                                                      g.power_pellets[PelletOrder[j]]}}
    IN  CHOOSE t \in ticks : \A u \in ticks : u <= t

\* C20: when a power pellet is consumed in tick t while the ghost is not
\* Eaten, and the ghost is not eaten afterwards, then as long as no further
\* pellet is consumed the ghost is vulnerable in the collision pass of each
\* of the POWER_PELLET_DURATION ticks t .. t+99 and Normal in the collision
\* pass of every tick from t+100 on; a pellet consumed during the window
\* sets the timer to POWER_PELLET_DURATION again, and the window is counted
\* from its tick.
C20_VulnerableForHundredTicks ==
    LET ghost == game.ghosts[gi]
        t     == LastPelletTick(game)
    IN  /\ (pc = "ghost_move" /\ pellet_tick)
              => /\ t = frame
                 /\ ghost.vulnerability_timer = POWER_PELLET_DURATION
                 /\ ghost.vulnerable
        /\ (/\ pc = "check_collisions"
            /\ t > 0
            /\ ~HasBeenEaten(game) \/ t > EatTick + RESPAWN_FRAMES)
              => /\ frame < t + POWER_PELLET_DURATION
                       => GhostState(ghost) = "Vulnerable"
                 /\ frame >= t + POWER_PELLET_DURATION
                       => GhostState(ghost) = "Normal"

\* The collision pass of tick t+100 is about to run, the pellet of tick t
\* having been consumed in the window of an earlier one.
C20_Witness ==
    /\ pc = "check_collisions"
    /\ LastPelletTick(game) = PelletTicks[2]
    /\ game.power_pellets[PelletOrder[1]]
    /\ ~HasBeenEaten(game)
    /\ frame = PelletTicks[2] + POWER_PELLET_DURATION

(* ---------------------------------------------------------------- C21 *)

\* the ghost of the specification of Ghost.move as the call finds it, after
\* update_vulnerability and the increment of its counter (lines 380-381)
Counted ==
    [update_vulnerability(game.ghosts[gi])
        EXCEPT !.direction_change_timer = game.ghosts[gi].direction_change_timer + 1]

\* the cadence of the Normal rule of each ai_type, the random one being given
Cadence(ai_type, random_cadence) ==
    CASE ai_type = "aggressive" -> 20
      [] ai_type = "ambush" -> 30
      [] ai_type = "patrol" -> 40
      [] ai_type = "random" -> random_cadence

\* the directions the Normal rule of g's ai_type can leave in g.direction
RuleOutcomes(g, player_pos, player_direction) ==
    CASE g.ai_type = "aggressive" -> {ChaseDirection(g, player_pos)}
      [] g.ai_type = "ambush" ->
            {ChaseDirection(g, <<player_pos[1] + 4 * TILE_SIZE * player_direction[1],
                                 player_pos[2] + 4 * TILE_SIZE * player_direction[2]>>)}
      [] g.ai_type = "patrol" -> Cardinals
      [] g.ai_type = "random" -> Cardinals \cup {g.direction}

\* one call of Ghost.move on a Normal ghost whose random rule has the given
\* cadence: the counter goes up by one; the AI rule is taken when the counter
\* is a multiple of the cadence and at no other call; a ghost that advances
\* does so in the direction the AI left, and a ghost that stays was stopped by
\* a wall in that direction and drew its direction by the wall-bounce rule
NormalCall(random_cadence) ==
    LET before == game.ghosts[gi]
        after == game'.ghosts[gi]
        g == Counted
        player_pos == RectCenter(game.player.rect)
        player_direction == game.player.last_direction
        allowed == IF g.direction_change_timer % Cadence(g.ai_type, random_cadence) = 0
                   THEN RuleOutcomes(g, player_pos, player_direction)
                   ELSE {before.direction}
    IN  (~before.eaten /\ ~g.vulnerable) =>
            /\ after.direction_change_timer = g.direction_change_timer
            /\ ~after.vulnerable /\ ~after.eaten
            /\ AIDirections(g, player_pos, player_direction) = allowed
            /\ after.rect # before.rect =>
                  /\ after.direction \in allowed
                  /\ after.rect = RectMove(before.rect, after.direction[1], after.direction[2])
            /\ after.rect = before.rect =>
                  /\ after.direction \in Cardinals
                  /\ \E d \in allowed : collides_with_walls(RectMove(before.rect, d[1], d[2]))

(* C21 (as amended): while Normal, a ghost's direction is changed by its AI
   rule on the calls of Ghost.move where its counter, incremented once per
   call, is a multiple of its cadence, and on no other: 20 for aggressive,
   30 for ambush, 40 for patrol and 20 for random (change_freq // 2 with
   change_freq = 40, line 418); on every other call the direction changes
   only through the wall-bounce rule. *)
C21_RuleOnCadence == [][NormalCall(20)]_vars

(* C21 as stated: the same with a cadence of 10 for the random ghost.  At
   counter 10 the random ghost's rule is not taken.  (Read as "only on
   multiples of 10" and nothing more, the sentence would follow from the
   amended one, every multiple of 20 being a multiple of 10; it is refuted
   as a statement of the cadence, the calls on which the rule is taken.) *)
C21_RandomCadenceTen == [][NormalCall(10)]_vars

\* the random ghost, sent left along row 9 by the bounce of the first call,
\* has been turned round by its rule at counter 20 in the middle of the
\* corridor, where no wall can have done it
C21_Witness ==
    /\ game.ghosts[gi].ai_type = "random"
    /\ ~game.ghosts[gi].vulnerable
    /\ game.ghosts[gi].direction_change_timer = 20
    /\ game.ghosts[gi].rect.x = 8 * TILE_SIZE - 17 * MOVE_SPEED
    /\ game.ghosts[gi].rect.y = 9 * TILE_SIZE
    /\ game.ghosts[gi].direction = <<MOVE_SPEED, 0>>

(* ---------------------------------------------------------------- C22 *)

\* direction d lies along the axis with the larger of |dx| and |dy| (the y
\* axis when they are equal, as line 389 decides) and does not point to the
\* side of the player on that axis
FleesFrom(d, dx, dy) ==
    \/ Abs(dx) > Abs(dy) /\ d[2] = 0 /\ Abs(d[1]) = MOVE_SPEED /\ d[1] * dx < 0
    \/ Abs(dx) <= Abs(dy) /\ d[1] = 0 /\ Abs(d[2]) = MOVE_SPEED /\ d[2] * dy <= 0

\* one call of Ghost.move on a Vulnerable ghost: when the counter is a
\* multiple of 10 the AI leaves one direction, which flees from the player,
\* and at every other call it leaves the direction as it was; the ghost then
\* advances in that direction or is stopped by a wall and bounces
VulnerableCall ==
    LET before == game.ghosts[gi]
        after == game'.ghosts[gi]
        g == Counted
        player_pos == RectCenter(game.player.rect)
        player_direction == game.player.last_direction
        dx == player_pos[1] - g.rect.x
        dy == player_pos[2] - g.rect.y
        left == AIDirections(g, player_pos, player_direction)
    IN  (~before.eaten /\ g.vulnerable) =>
            /\ after.direction_change_timer = g.direction_change_timer
            /\ IF g.direction_change_timer % 10 = 0
               THEN \E d \in Cardinals : left = {d} /\ FleesFrom(d, dx, dy)
               ELSE left = {before.direction}
            /\ after.rect # before.rect =>
                  /\ after.direction \in left
                  /\ after.rect = RectMove(before.rect, after.direction[1], after.direction[2])
            /\ after.rect = before.rect =>
                  /\ after.direction \in Cardinals
                  /\ \E d \in left : collides_with_walls(RectMove(before.rect, d[1], d[2]))

(* C22: while Vulnerable, every ghost, whatever its ai_type, re-evaluates its
   direction exactly on the calls of Ghost.move where its counter is a
   multiple of 10; the new direction lies along the axis with the larger
   absolute delta to the player and points away from the player on that
   axis; the Normal rule of its ai_type (chase, ambush, random pick) is never
   applied.  The delta is the one Ghost.move is given and takes: player_pos,
   which Game.run passes as the centre of the player's rect (line 805), minus
   the x and y of the ghost's rect (lines 387-388). *)
C22_FleeEveryTenCalls == [][VulnerableCall]_vars

\* a Vulnerable ghost on its way down column 8, the player below it, has been
\* turned round at counter 10 between rows 9 and 11, where no wall stops it
C22_Witness ==
    /\ game.ghosts[gi].ai_type = "aggressive"
    /\ game.ghosts[gi].vulnerable
    /\ game.ghosts[gi].direction_change_timer = 10
    /\ game.player.rect.y = 13 * TILE_SIZE
    /\ game.ghosts[gi].rect.x = 8 * TILE_SIZE
    /\ game.ghosts[gi].rect.y = 9 * TILE_SIZE + 7 * MOVE_SPEED
    /\ game.ghosts[gi].direction = <<0, -MOVE_SPEED>>

(* ---------------------------------------------------------------- C23 *)

\* direction d lies along the axis with the larger of |dx| and |dy| (either
\* axis when they are equal), is zero on the other axis and does not point
\* away from the player on its own
ChasesTo(d, dx, dy) ==
    \/ Abs(dx) >= Abs(dy) /\ d[2] = 0 /\ Abs(d[1]) = MOVE_SPEED /\ d[1] * dx >= 0
    \/ Abs(dx) <= Abs(dy) /\ d[1] = 0 /\ Abs(d[2]) = MOVE_SPEED /\ d[2] * dy >= 0

(* C23: at a re-evaluation call of a Normal aggressive ghost (its counter a
   multiple of 20), with dx and dy the differences between the x and the y
   of the player's rect and of the ghost's rect, the direction the rule
   leaves lies along the axis with the larger absolute difference, points
   toward the player on that axis and is zero on the other; it never moves
   the ghost's rect away from the player's rect on the chosen axis. *)
C23_ChaseTowardPlayer ==
    LET g == Counted
        dx == game.player.rect.x - g.rect.x
        dy == game.player.rect.y - g.rect.y
    IN  (/\ frame < MaxMoves
         /\ g.ai_type = "aggressive" /\ ~g.eaten /\ ~g.vulnerable
         /\ g.direction_change_timer % 20 = 0) =>
            \A d \in AIDirections(g, RectCenter(game.player.rect), game.player.last_direction) :
                ChasesTo(d, dx, dy)

(* ---------------------------------------------------------------- C24 *)

\* one step of the fruit: a tick's update_bonus_fruit, or its recreation
FruitStep ==
    LET f == game.bonus_fruit
        f1 == game'.bonus_fruit
        wraps == f.spawn_timer = 1000
    IN  IF game'.level # game.level
        THEN f1 = NewFruit(14 * TILE_SIZE, 16 * TILE_SIZE)
        ELSE IF f.eaten
        THEN f1 = f /\ game'.score = game.score
        ELSE /\ f1.spawn_timer = IF wraps THEN 0 ELSE f.spawn_timer + 1
             /\ f1.fruit_type = IF wraps THEN (f.fruit_type + 1) % 3 ELSE f.fruit_type
             /\ f1.spawn_timer \in 0 .. 1000
             /\ f1.fruit_type \in 0 .. 2
             /\ f1.visible <=> (300 < f1.spawn_timer /\ f1.spawn_timer < 500)
             /\ f1.eaten => f1.visible
             /\ game'.score = game.score
                                 + IF f1.eaten THEN fruit_scores[f1.fruit_type + 1] ELSE 0

(* C24: while the fruit is uneaten every tick advances spawn_timer by 1,
   and after every Fruit.update visible holds if and only if
   300 < spawn_timer < 500, 0 <= spawn_timer <= 1000, fruit_type is in
   {0, 1, 2} and advances by 1 modulo 3 exactly on the tick where the timer
   passes 1000 and wraps to 0 (so the timer runs through 1001 values, of
   which the 199 values 301..499 are the visible ones).  Once eaten the fruit
   stays eaten, nothing of it changes and it scores no more, until next_level
   or Game.__init__ creates a new fruit. *)
C24_FruitCycle == [][FruitStep]_vars

\* the fruit has been through a whole cycle, has become a strawberry and has
\* been eaten for 300
C24_Witness ==
    /\ game.bonus_fruit.eaten
    /\ game.bonus_fruit.fruit_type = 1
    /\ game.bonus_fruit.spawn_timer = 499
    /\ game.level = 1 /\ game.score = fruit_scores[2]

(* ---------------------------------------------------------------- C25 *)

\* ghost j of Game.__init__ as Ghost.move can find it on its spawn tile after
\* its AI rule: heading any of the four ways, Normal or vulnerable
SpawnStates(j) ==
    UNION {{[NewGame(HeldDraw).ghosts[j] EXCEPT !.direction = d],
            make_vulnerable([NewGame(HeldDraw).ghosts[j] EXCEPT !.direction = d])} :
           d \in Cardinals}

\* on its spawn tile a ghost is stopped by a wall whichever way it heads, and
\* Ghost.reset and Ghost.respawn put it where it is
SpawnWalled ==
    \A j \in GhostIds :
        \A g \in SpawnStates(j) :
            /\ AtSpawn(g)
            /\ \A g2 \in GhostAdvance(g) : g2.rect = g.rect
            /\ \A d \in Cardinals : GhostReset(g, d).rect = g.rect
            /\ respawn(Eaten(g, 1)).rect = g.rect

\* self.player.move has been called: the rest of the tick of Game.run (lines
\* 802-807) finds the player where it is now
MovedOn == pc = "handle_events"

\* the game with every ghost made vulnerable
AllVulnerable(g) == [g EXCEPT !.ghosts = [j \in GhostIds |-> make_vulnerable(g.ghosts[j])]]

(* C25: with the fixed MAZE and the spawn tiles (13,11), (14,11), (13,12),
   (14,12) of Game.__init__, every ghost's rect is its spawn rect and none
   of Ghost.move, Ghost.reset and Ghost.respawn changes it, wherever the
   player is and whichever way the ghost is heading; no ghost overlaps the
   player's rect at any place the player can come to, so check_collisions
   changes nothing, vulnerable ghosts or not: lives stays 3, no ghost is
   eaten and game_over stays False.  (Ghost.move and check_collisions are
   applied where Game.run calls them, after the player's move.) *)
C25_GhostsStayInSpawn ==
    /\ SpawnWalled
    /\ \A j \in GhostIds :
          /\ AtSpawn(game.ghosts[j])
          /\ ~colliderect(game.player.rect, game.ghosts[j].rect)
          /\ ~game.ghosts[j].eaten
    /\ MovedOn =>
          /\ \A j \in GhostIds :
                \A g2 \in GhostMove(game.ghosts[j], RectCenter(game.player.rect),
                                     game.player.last_direction) :
                    g2.rect = game.ghosts[j].rect
          /\ check_collisions(game) = {game}
          /\ check_collisions(AllVulnerable(game)) = {AllVulnerable(game)}
    /\ game.lives = INITIAL_LIVES
    /\ ~game.game_over

\* the player stands on tile (12,11), side by side with the ghost of tile
\* (13,11)
C25_Witness ==
    /\ game.player.rect.x = 12 * TILE_SIZE
    /\ game.player.rect.y = 11 * TILE_SIZE
    /\ game.ghosts[1].rect.x = 13 * TILE_SIZE
    /\ game.ghosts[1].rect.y = 11 * TILE_SIZE
    /\ pc = "handle_events"

(* ---------------------------------------------------------------- C26 *)

\* the '0' cell of row 4, column 21 and its mirror in row 18
SealedCells == {<<4, 21>>, <<18, 21>>}

\* the four cells next to cell rc
Neighbours(rc) ==
    {<<rc[1] - 1, rc[2]>>, <<rc[1] + 1, rc[2]>>, <<rc[1], rc[2] - 1>>, <<rc[1], rc[2] + 1>>}

\* the game with every dot eaten but those of the sealed cells
AllButSealed(g) == [g EXCEPT !.dots = [rc \in DotCells |-> rc \notin SealedCells]]

(* C26: with the fixed MAZE, the dots of cell (4,21) and of its mirror
   (18,21), whose four neighbours are walls, can never be eaten: at no place
   the player can come to does its rect overlap the rect of either dot; so
   update_dots, even with every other dot eaten, leaves them uneaten and
   game_won False, and level stays 1. *)
C26_SealedDotsNeverEaten ==
    LET after == update_dots(AllButSealed(game))
    IN  /\ \A rc \in SealedCells :
              /\ rc \in DotCells
              /\ Neighbours(rc) \subseteq WallCells
              /\ ~colliderect(game.player.rect, DotRect(rc))
              /\ MovedOn => ~after.dots[rc]
        /\ MovedOn => ~after.game_won
        /\ ~game.game_won
        /\ game.level = 1

\* the player stands on tile (3,20), corner to corner with the sealed cell
\* (4,21)
C26_Witness ==
    /\ game.player.rect.x = 20 * TILE_SIZE
    /\ game.player.rect.y = 3 * TILE_SIZE
    /\ ~game.dots[<<4, 21>>]
    /\ pc = "handle_events"

(* ---------------------------------------------------------------- C28 *)

\* the game with its fruit of type fruit_type, its timer at spawn_timer
FruitAt(g, spawn_timer, fruit_type) ==
    [g EXCEPT !.bonus_fruit.spawn_timer = spawn_timer,
              !.bonus_fruit.fruit_type = fruit_type,
              !.bonus_fruit.visible = 300 < spawn_timer /\ spawn_timer < 500]

\* timer values before update_bonus_fruit: the ends of the fruit's cycle, the
\* first, a middle and the last of its visible ticks and the ticks around
FruitTimers == {0, 299, 300, 400, 497, 498, 499, 999, 1000}

(* C28: the bonus fruit is created on tile (14,16) of the fixed MAZE, a wall
   tile, with the rect (285, 325, 10, 10); at no place the player can come
   to does the player's rect overlap it; so bonus_fruit.eaten is False and
   update_bonus_fruit, whatever the fruit's type and timer, visible or not,
   leaves it uneaten and adds no fruit score. *)
C28_FruitNeverEaten ==
    /\ <<16, 14>> \in WallCells
    /\ game.bonus_fruit.rect = NewFruit(14 * TILE_SIZE, 16 * TILE_SIZE).rect
    /\ colliderect(game.bonus_fruit.rect, WallRect(<<16, 14>>))
    /\ ~colliderect(game.player.rect, game.bonus_fruit.rect)
    /\ ~game.bonus_fruit.eaten
    /\ \A spawn_timer \in IF MovedOn THEN FruitTimers ELSE {}, fruit_type \in 0 .. 2 :
          LET after == update_bonus_fruit(FruitAt(game, spawn_timer, fruit_type))
          IN  ~after.bonus_fruit.eaten /\ after.score = game.score

\* the player stands on tile (14,15), right above the fruit's tile
C28_Witness ==
    /\ game.player.rect.x = 14 * TILE_SIZE
    /\ game.player.rect.y = 15 * TILE_SIZE
    /\ game.bonus_fruit.rect.y = 16 * TILE_SIZE + TILE_SIZE \div 4
    /\ pc = "handle_events"

(* ---------------------------------------------------------------- C27 *)

\* the ghosts check_collisions can still eat before the next power pellet
Edible(g) == {i \in GhostIds : g.ghosts[i].vulnerable /\ ~g.ghosts[i].eaten}

\* the awards of the ghosts check_collisions eats in one pass over g
PassAwards(g) ==
    {GHOST_SCORE * (g.ghost_combo + k) : k \in 0 .. Cardinality(EatenInPass(g)) - 1}

(* C27: whatever overlaps the player, each ghost is eaten at most once
   between two power pellets: a pellet sets ghost_combo to 1 and leaves at
   most four ghosts to eat, each ghost eaten adds 1 to ghost_combo and is
   not vulnerable again before the next pellet, respawned or reset; so
   ghost_combo plus the number of ghosts still to eat never exceeds 5,
   1 <= ghost_combo <= 5, and every award of check_collisions is one of 200,
   400, 600, 800. *)
C27_ComboBounded ==
    /\ 1 <= game.ghost_combo /\ game.ghost_combo <= 5
    /\ game.ghost_combo + Cardinality(Edible(game)) <= 5
    /\ pc = "check_collisions" =>
          /\ EatenInPass(game) \subseteq Edible(game)
          /\ PassAwards(game) \subseteq {200, 400, 600, 800}

\* three ghosts have been eaten in one pass after one eaten before: the
\* combo has reached 5, the last award was 800
C27_Witness ==
    /\ pc = "handle_events" /\ frame = 1
    /\ game.ghost_combo = 5
    /\ Cardinality({i \in GhostIds : game.ghosts[i].eaten}) = 3
    /\ game.lives = INITIAL_LIVES

====
